---- MODULE Spec2Model ----
(***************************************************************************)
(* A model of the formulation engine of Switch (n7gonzalez/switch): the    *)
(* load-zone ledger with its registries of injection and withdrawal terms, *)
(* the generation build ledger, the storage operation engine and the       *)
(* transmission dispatch engine.                                           *)
(*                                                                         *)
(* The specifications of the module share its variables:                   *)
(*   Spec         the construction pipeline of the load-zone ledger: the   *)
(*                registries, the engines that append to them, the energy  *)
(*                balance constraint, a solve of it and the export;        *)
(*   SpecBuild    the construction of generators/core/build.py on an input *)
(*                table set, and a solve of its bounds and constraints;    *)
(*   SpecStorage  the construction of generators/extensions/storage.py and *)
(*                a solve of its state-of-charge constraints, with         *)
(*                SpecStorageOptions, SpecStorageHourly, SpecStorageCost   *)
(*                and SpecNetCharge for its optional parts;                *)
(*   SpecTx       the transmission dispatch engine;                        *)
(*   SpecDiscrete, SpecScenario  the project modules of switch_mod;        *)
(*   SpecGrouping the grouped index sets of the build ledger;              *)
(*   SpecCurtailment  the curtailment policy.                              *)
(* Real-valued quantities are exact rationals <<numerator, denominator>>.  *)
(***************************************************************************)
EXTENDS Integers, Sequences, FiniteSets, TLC

VARIABLES
    \* ---- the load-zone ledger (Spec) ----
    module_list,                   \* the modules of the model, in the order they are run
    phase,                         \* the pass of the construction that is under way
    next_mod,                      \* position in module_list within the pass
    attrs,                         \* plain python attributes that exist on the model
    Zone_Power_Injections,         \* load_zones.py:45
    Zone_Power_Withdrawals,        \* load_zones.py:46
    Distributed_Power_Withdrawals, \* the list load_zones.py:120 tries first
    declared,                      \* names of the components declared on the model
    zone_demand_mw,                \* load_zones.py:105 (data, loaded by create_instance)
    Zone_Energy_Balance,           \* load_zones.py:159 (constructed constraint, per index)
    value,                         \* values the solve gave the registered expressions
    status,                        \* "building", "constructed", "optimal", "infeasible"
    \* ---- the generation build ledger (SpecBuild): the input tables ----
    periods_csv,                   \* PERIOD -> period_start, period_length_years
    generation_projects_info,      \* GENERATION_PROJECT -> the columns that have a value
    gen_build_predetermined,       \* (GENERATION_PROJECT, build_year) -> the columns that have a value
    gen_build_costs,               \* the (GENERATION_PROJECT, build_year) rows of the table
    \* ---- the generation build ledger: the constructed components ----
    build_pc,                      \* the block of components that is constructed next
    build_error,                   \* the component whose construction raised, or "none"
    built,                         \* names of the components constructed so far
    PREDETERMINED_BLD_YRS,         \* build.py:427
    GEN_BLD_YRS,                   \* build.py:435
    NEW_GEN_BLD_YRS,               \* build.py:443
    PERIODS_FOR_GEN_BLD_YR,        \* build.py:495
    BLD_YRS_FOR_GEN_PERIOD,        \* build.py:516
    GEN_PERIODS,                   \* build.py:570
    BuildGen_bounds,               \* build.py:547 (the bounds of each BuildGen[g, bld_yr])
    BuildGen,                      \* build.py:547 (the values that have been assigned)
    GenCapacity,                   \* build.py:577 (the build years each GenCapacity[g, p] sums)
    Max_Build_Potential,           \* build.py:590 (the index set of the constraint)
    NEW_GEN_WITH_MIN_BUILD_YEARS,  \* build.py:607
    BuildMinGenCap,                \* build.py:612 (the values that have been assigned)
    BuildStorageEnergy_bounds,     \* storage.py:251
    BuildStorageEnergy,            \* storage.py:251 (the values that have been assigned)
    \* ---- the storage operation engine (SpecStorage) ----
    timeseries_csv,                \* TIMESERIES -> ts_period, ts_duration_of_tp
    timepoints_csv,                \* timepoint_id -> timeseries
    storage_pc,                    \* the block of components that is constructed next
    storage_error,                 \* the component whose construction raised, or "none"
    STORAGE_GEN_TPS,               \* storage.py:317
    Track_State_Of_Charge,         \* storage.py:400 (the constraints, in the order constructed)
    State_Of_Charge_Upper_Limit,   \* storage.py:407 (constructed constraint, per index)
    State_Of_Charge_Lower_Limit,   \* storage.py:419 (constructed constraint, per index)
    ChargeStorage,                 \* storage.py:324 (the values that have been assigned)
    DispatchGen,                   \* the dispatch variable of generators/core/dispatch.py
    StateOfCharge,                 \* storage.py:366 (the values that have been assigned)
    Storage_Charge_Summation_dict, \* storage.py:332 (the attribute, and its entries once it exists)
    StorageNetCharge,              \* storage.py:341 (constructed expression, per index)
    Enforce_Fixed_Energy_Storage_Ratio, \* storage.py:346 (constructed constraint, per index)
    Battery_Cycle_Limit,           \* storage.py:424 (constructed constraint, per index)
    \* ---- the transmission dispatch engine (SpecTx) ----
    transmission_lines,            \* TRANSMISSION_LINE -> trans_lz1, trans_lz2, trans_efficiency
    TxCapacityNameplateAvailable,  \* (TRANSMISSION_LINE, PERIOD) -> MW, from transport.build
    tx_pc,                         \* the component that is constructed next
    Maximum_DispatchTx,            \* dispatch.py:61 (constructed constraint, per index)
    TXPowerNet,                    \* dispatch.py:84 (constructed expression, per index)
    DispatchTx,                    \* dispatch.py:59 (the values that have been assigned)
    \* ---- discrete builds (SpecDiscrete) ----
    proj_gen_tech,                 \* PROJECT -> technology, from project.build
    g_unit_size,                   \* technology -> MW, for GEN_TECH_WITH_UNIT_SIZES (gen_tech)
    PROJECT_BUILDYEARS,            \* (PROJECT, build_year) -> existing MW, if it is built already
    discrete_pc,                   \* the component that is constructed next
    NEW_PROJ_BUILDYEARS_DISCRETE,  \* discrete_build.py:46
    Build_Units_Consistency,       \* discrete_build.py:53 (constructed constraint, per index)
    BuildUnits,                    \* discrete_build.py:50 (the values that have been assigned)
    BuildProj,                     \* the build variable of project.build (values assigned)
    \* ---- dispatch without commitment (SpecScenario) ----
    BASELOAD_PROJECTS,             \* the projects that run at their upper limit
    VARIABLE_PROJECTS,             \* the projects whose resource varies
    prj_max_capacity_factor,       \* (PROJECT, timepoint) -> share of the capacity the resource allows
    proj_availability,             \* PROJECT -> share of the capacity that is available
    no_commit_pc,                  \* the component that is constructed next
    DispatchUpperLimit,            \* no_commit.py:71 (constructed expression, per index)
    DispatchLowerLimit,            \* no_commit.py:80 (constructed expression, per index)
    DispatchProj,                  \* the dispatch variable of project.dispatch (values assigned)
    \* ---- the grouped index sets of the build ledger (SpecGrouping) ----
    grouping_pc,                   \* the component that is constructed next
    grouping_error,                \* the component whose construction raised, or "none"
    GENS_IN_ZONE_dict,             \* build.py:305 (the attribute, and its entries once it exists)
    GENS_IN_ZONE,                  \* build.py:313 (the members constructed so far)
    GENS_BY_TECH_dict,             \* build.py:327 (the attribute, and its entries once it exists)
    GENS_BY_TECHNOLOGY,            \* build.py:335 (the members constructed so far)
    STORAGE_GENS_data,             \* storage.py:445 (the entry load_inputs leaves in the data)
    \* ---- the capital cost of storage energy (SpecStorageCost) ----
    gen_storage_energy_overnight_cost, \* storage.py:225 ((project, build_year) -> cost per MWh)
    StorageEnergyFixedCost,        \* storage.py:280 (constructed expression, per period)
    \* ---- the curtailment policy (SpecCurtailment) ----
    curtailment_pc,                \* the component that is constructed next
    maximum_curtailment_CUR,       \* curtailment_test.py:89 ((period, energy source) -> share)
    DispatchUpperLimit_mw,         \* the value of DispatchUpperLimit[g, t] in the solved model
    gen_energy_actual,             \* curtailment_test.py:95 (constructed expression, per index)
    gen_energy_ideal,              \* curtailment_test.py:102 (constructed expression, per index)
    gen_curtailment_ratio,         \* curtailment_test.py:110 (constructed expression, per index)
    gen_curtailment_ratio_cos,     \* curtailment_test.py:115 (constructed constraint, per index)
    \* ---- the exported ledger (Spec) ----
    outdir                         \* load_zones.py:170 (the tables post_solve writes, by file name)

ledger_vars == << module_list, phase, next_mod, attrs, Zone_Power_Injections,
                  Zone_Power_Withdrawals, Distributed_Power_Withdrawals, declared,
                  zone_demand_mw, Zone_Energy_Balance, value, status >>

build_inputs == << periods_csv, generation_projects_info, gen_build_predetermined,
                   gen_build_costs >>

build_components == << PREDETERMINED_BLD_YRS, GEN_BLD_YRS, NEW_GEN_BLD_YRS,
                       PERIODS_FOR_GEN_BLD_YR, BLD_YRS_FOR_GEN_PERIOD, GEN_PERIODS,
                       BuildGen_bounds, BuildGen, GenCapacity, Max_Build_Potential,
                       NEW_GEN_WITH_MIN_BUILD_YEARS, BuildMinGenCap,
                       BuildStorageEnergy_bounds, BuildStorageEnergy >>

build_vars == << build_inputs, build_pc, build_error, built, build_components >>

storage_inputs == << timeseries_csv, timepoints_csv >>

storage_components == << STORAGE_GEN_TPS, Track_State_Of_Charge,
                         State_Of_Charge_Upper_Limit, State_Of_Charge_Lower_Limit,
                         ChargeStorage, DispatchGen, StateOfCharge >>

net_charge_vars == << Storage_Charge_Summation_dict, StorageNetCharge >>

storage_option_vars == << Enforce_Fixed_Energy_Storage_Ratio, Battery_Cycle_Limit >>

storage_vars == << storage_inputs, storage_pc, storage_error, storage_components,
                  net_charge_vars, storage_option_vars >>

tx_vars == << transmission_lines, TxCapacityNameplateAvailable, tx_pc,
             Maximum_DispatchTx, TXPowerNet, DispatchTx >>

discrete_vars == << proj_gen_tech, g_unit_size, PROJECT_BUILDYEARS, discrete_pc,
                   NEW_PROJ_BUILDYEARS_DISCRETE, Build_Units_Consistency, BuildUnits,
                   BuildProj >>

no_commit_vars == << BASELOAD_PROJECTS, VARIABLE_PROJECTS, prj_max_capacity_factor,
                    proj_availability, no_commit_pc,
                    DispatchUpperLimit, DispatchLowerLimit, DispatchProj >>

grouping_vars == << grouping_pc, grouping_error, GENS_IN_ZONE_dict, GENS_IN_ZONE,
                   GENS_BY_TECH_dict, GENS_BY_TECHNOLOGY, STORAGE_GENS_data >>

export_vars == << outdir >>

storage_cost_vars == << gen_storage_energy_overnight_cost, StorageEnergyFixedCost >>

curtailment_vars == << curtailment_pc, maximum_curtailment_CUR, DispatchUpperLimit_mw,
                      gen_energy_actual, gen_energy_ideal, gen_curtailment_ratio,
                      gen_curtailment_ratio_cos >>

extension_vars == << grouping_vars, export_vars, storage_cost_vars, curtailment_vars >>

project_vars == << discrete_vars, no_commit_vars, extension_vars >>

vars == << ledger_vars, build_vars, storage_vars, tx_vars, project_vars >>

(***************************************************************************)
(* Generic helpers.                                                        *)
(***************************************************************************)
Range(s) == { s[i] : i \in DOMAIN s }

RECURSIVE SumSeq(_)
SumSeq(s) == IF s = << >> THEN 0 ELSE Head(s) + SumSeq(Tail(s))

(***************************************************************************)
(* The load-zone ledger.                                                   *)
(***************************************************************************)
\* The levels, in MW, that a demand or a zonal charging total takes in Spec.
MWLevels == { 0, 1 }

LOAD_ZONES == { "z1", "z2" }
TIMEPOINTS == { 1, 2 }

\* load_zones.py:102-104
ZONE_TIMEPOINTS == LOAD_ZONES \X TIMEPOINTS

Modules == { "load_zones", "storage", "tx_dispatch", "local_td" }

\* Every model has the load-zone ledger; the engines are optional and run in the
\* order the model lists them.
ModuleLists ==
    { s \in UNION { [1..n -> Modules] : n \in 1..Cardinality(Modules) } :
        /\ \A i, j \in DOMAIN s : i # j => s[i] # s[j]
        /\ "load_zones" \in Range(s) }

\* The domain of the value of a component at one (zone, timepoint).
ComponentValues(component) ==
    IF component = "TXPowerNet" THEN MWLevels \cup { 0 - v : v \in MWLevels } ELSE MWLevels

\* The driver runs one pass over every module before the next pass starts.
AtModule(p, m) ==
    /\ phase = p
    /\ next_mod \in DOMAIN module_list
    /\ module_list[next_mod] = m

Advance(p, following) ==
    IF next_mod < Len(module_list)
    THEN /\ next_mod' = next_mod + 1
         /\ phase' = p
    ELSE /\ next_mod' = 1
         /\ phase' = following

InitLedger ==
    /\ module_list \in ModuleLists
    /\ phase = "define_dynamic_lists"
    /\ next_mod = 1
    /\ attrs = { }
    /\ Zone_Power_Injections = << >>
    /\ Zone_Power_Withdrawals = << >>
    /\ Distributed_Power_Withdrawals = << >>
    /\ declared = { }
    /\ zone_demand_mw = << >>
    /\ Zone_Energy_Balance = << >>
    /\ value = << >>
    /\ status = "building"

\* load_zones.py:35-46
load_zones_define_dynamic_lists ==
    /\ AtModule("define_dynamic_lists", "load_zones")
    /\ attrs' = attrs \cup { "Zone_Power_Injections", "Zone_Power_Withdrawals" }
    /\ Zone_Power_Injections' = << >>
    /\ Zone_Power_Withdrawals' = << >>
    /\ Advance("define_dynamic_lists", "define_components")
    /\ UNCHANGED << module_list, Distributed_Power_Withdrawals, declared,
                    zone_demand_mw, Zone_Energy_Balance, value, status >>
    /\ UNCHANGED << build_vars, storage_vars, tx_vars, project_vars >>

\* The local_td module gives the model a distributed node:
\* the list that load_zones.py:120 looks for.
local_td_define_dynamic_lists ==
    /\ AtModule("define_dynamic_lists", "local_td")
    /\ attrs' = attrs \cup { "Distributed_Power_Withdrawals" }
    /\ Distributed_Power_Withdrawals' = << >>
    /\ Advance("define_dynamic_lists", "define_components")
    /\ UNCHANGED << module_list, Zone_Power_Injections, Zone_Power_Withdrawals,
                    declared, zone_demand_mw, Zone_Energy_Balance, value, status >>
    /\ UNCHANGED << build_vars, storage_vars, tx_vars, project_vars >>

\* A module that lacks the function of the pass is passed over.
skip_module ==
    /\ \/ /\ phase = "define_dynamic_lists"
          /\ next_mod \in DOMAIN module_list
          /\ module_list[next_mod] \in { "storage", "tx_dispatch", "dispatch" }
          /\ Advance("define_dynamic_lists", "define_components")
       \/ /\ AtModule("define_components", "local_td")
          /\ Advance("define_components", "define_dynamic_components")
       \/ /\ phase = "define_dynamic_components"
          /\ next_mod \in DOMAIN module_list
          /\ module_list[next_mod] # "load_zones"
          /\ Advance("define_dynamic_components", "create_instance")
    /\ UNCHANGED << module_list, attrs, Zone_Power_Injections, Zone_Power_Withdrawals,
                    Distributed_Power_Withdrawals, declared, zone_demand_mw,
                    Zone_Energy_Balance, value, status >>
    /\ UNCHANGED << build_vars, storage_vars, tx_vars, project_vars >>

\* load_zones.py:49-141: the append of line 120 raises AttributeError when the
\* model has no distributed node, and line 122 then registers the demand.
load_zones_define_components ==
    /\ AtModule("define_components", "load_zones")
    /\ declared' = declared \cup { "LOAD_ZONES", "ZONE_TIMEPOINTS", "zone_demand_mw" }
    /\ IF "Distributed_Power_Withdrawals" \in attrs
       THEN /\ Distributed_Power_Withdrawals' =
                   Append(Distributed_Power_Withdrawals, "zone_demand_mw")
            /\ UNCHANGED Zone_Power_Withdrawals
       ELSE /\ Zone_Power_Withdrawals' = Append(Zone_Power_Withdrawals, "zone_demand_mw")
            /\ UNCHANGED Distributed_Power_Withdrawals
    /\ Advance("define_components", "define_dynamic_components")
    /\ UNCHANGED << module_list, attrs, Zone_Power_Injections, zone_demand_mw,
                    Zone_Energy_Balance, value, status >>
    /\ UNCHANGED << build_vars, storage_vars, tx_vars, project_vars >>

\* storage.py:54-439, as far as the ledger sees it: lines 340-343.
storage_define_components ==
    /\ AtModule("define_components", "storage")
    /\ declared' = declared \cup { "ChargeStorage", "StorageNetCharge" }
    /\ Zone_Power_Withdrawals' = Append(Zone_Power_Withdrawals, "StorageNetCharge")
    /\ Advance("define_components", "define_dynamic_components")
    /\ UNCHANGED << module_list, attrs, Zone_Power_Injections,
                    Distributed_Power_Withdrawals, zone_demand_mw,
                    Zone_Energy_Balance, value, status >>
    /\ UNCHANGED << build_vars, storage_vars, tx_vars, project_vars >>

\* A mutant of the function: the net flow is registered on both sides of the balance.
tx_dispatch_define_components_both_sides ==
    /\ AtModule("define_components", "tx_dispatch")
    /\ declared' = declared \cup { "DispatchTx", "TXPowerNet" }
    /\ Zone_Power_Injections' = Append(Zone_Power_Injections, "TXPowerNet")
    /\ Zone_Power_Withdrawals' = Append(Zone_Power_Withdrawals, "TXPowerNet")
    /\ Advance("define_components", "define_dynamic_components")
    /\ UNCHANGED << module_list, attrs, Distributed_Power_Withdrawals, zone_demand_mw,
                    Zone_Energy_Balance, value, status >>
    /\ UNCHANGED << build_vars, storage_vars, tx_vars, project_vars >>

\* transmission/transport/dispatch.py:18-88, as far as the ledger sees it: lines 84-88.
tx_dispatch_define_components ==
    /\ AtModule("define_components", "tx_dispatch")
    /\ declared' = declared \cup { "DispatchTx", "TXPowerNet" }
    /\ Zone_Power_Injections' = Append(Zone_Power_Injections, "TXPowerNet")
    /\ Advance("define_components", "define_dynamic_components")
    /\ UNCHANGED << module_list, attrs, Zone_Power_Withdrawals,
                    Distributed_Power_Withdrawals, zone_demand_mw,
                    Zone_Energy_Balance, value, status >>
    /\ UNCHANGED << build_vars, storage_vars, tx_vars, project_vars >>

\* A mutant of the function: the demand is registered after the constraint is declared.
load_zones_define_dynamic_components_then_appends ==
    /\ AtModule("define_dynamic_components", "load_zones")
    /\ declared' = declared \cup { "Zone_Energy_Balance" }
    /\ Zone_Power_Withdrawals' = Append(Zone_Power_Withdrawals, "zone_demand_mw")
    /\ Advance("define_dynamic_components", "create_instance")
    /\ UNCHANGED << module_list, attrs, Zone_Power_Injections,
                    Distributed_Power_Withdrawals, zone_demand_mw,
                    Zone_Energy_Balance, value, status >>
    /\ UNCHANGED << build_vars, storage_vars, tx_vars, project_vars >>

\* load_zones.py:144-167: the constraint is declared; its rule runs when the
\* instance is constructed.
load_zones_define_dynamic_components ==
    /\ AtModule("define_dynamic_components", "load_zones")
    /\ declared' = declared \cup { "Zone_Energy_Balance" }
    /\ Advance("define_dynamic_components", "create_instance")
    /\ UNCHANGED << module_list, attrs, Zone_Power_Injections, Zone_Power_Withdrawals,
                    Distributed_Power_Withdrawals, zone_demand_mw,
                    Zone_Energy_Balance, value, status >>
    /\ UNCHANGED << build_vars, storage_vars, tx_vars, project_vars >>

\* A mutant of the rule: the last registered withdrawal is left out of the sum.
Zone_Energy_Balance_rule_drops_last(z, t) ==
    [ lhs |-> [ i \in DOMAIN Zone_Power_Injections |->
                  << Zone_Power_Injections[i], z, t >> ],
      rhs |-> [ i \in 1..(Len(Zone_Power_Withdrawals) - 1) |->
                  << Zone_Power_Withdrawals[i], z, t >> ] ]

\* A mutant of the rule: every row takes its terms at the first timepoint.
Zone_Energy_Balance_rule_first_tp(z, t) ==
    [ lhs |-> [ i \in DOMAIN Zone_Power_Injections |->
                  << Zone_Power_Injections[i], z, 1 >> ],
      rhs |-> [ i \in DOMAIN Zone_Power_Withdrawals |->
                  << Zone_Power_Withdrawals[i], z, 1 >> ] ]

\* load_zones.py:161-167: sum(getattr(m, c)[z, t] for c in m.Zone_Power_Injections)
\* == sum(getattr(m, c)[z, t] for c in m.Zone_Power_Withdrawals), as the two
\* sequences of the terms it sums.
Zone_Energy_Balance_rule(z, t) ==
    [ lhs |-> [ i \in DOMAIN Zone_Power_Injections |->
                  << Zone_Power_Injections[i], z, t >> ],
      rhs |-> [ i \in DOMAIN Zone_Power_Withdrawals |->
                  << Zone_Power_Withdrawals[i], z, t >> ] ]

\* The instance is constructed from the declared components and the input tables:
\* loads.csv gives the demand (load_zones.py:105-108, non-negative), and the rule of
\* every declared constraint is run on each member of its index set.
create_instance ==
    /\ phase = "create_instance"
    /\ \E demand \in [ZONE_TIMEPOINTS -> MWLevels] : zone_demand_mw' = demand
    /\ Zone_Energy_Balance' =
          IF "Zone_Energy_Balance" \in declared
          THEN [ zt \in ZONE_TIMEPOINTS |-> Zone_Energy_Balance_rule(zt[1], zt[2]) ]
          ELSE << >>
    /\ phase' = "solve"
    /\ status' = "constructed"
    /\ UNCHANGED << module_list, next_mod, attrs, Zone_Power_Injections,
                    Zone_Power_Withdrawals, Distributed_Power_Withdrawals, declared,
                    value >>
    /\ UNCHANGED << build_vars, storage_vars, tx_vars, project_vars >>

\* The value of a term of a constraint under the values val of the expressions.
TermValue(val, term) ==
    IF term[1] = "zone_demand_mw"
    THEN zone_demand_mw[<< term[2], term[3] >>]
    ELSE val[term[1]][<< term[2], term[3] >>]

ConstraintHolds(val, con) ==
    SumSeq([ i \in DOMAIN con.lhs |-> TermValue(val, con.lhs[i]) ])
        = SumSeq([ i \in DOMAIN con.rhs |-> TermValue(val, con.rhs[i]) ])

\* The expressions whose values a solve decides.
SolvedComponents == declared \cap { "StorageNetCharge", "TXPowerNet" }

\* The assignments of values to the cells of one component.
Assignments(component) == [ZONE_TIMEPOINTS -> ComponentValues(component)]

\* The candidate solutions: a value for every cell of every solved expression.
Candidates ==
    { [ c \in SolvedComponents |-> IF c = "StorageNetCharge" THEN s ELSE x ] :
        s \in IF "StorageNetCharge" \in declared
                THEN Assignments("StorageNetCharge") ELSE { << >> },
        x \in IF "TXPowerNet" \in declared
                THEN Assignments("TXPowerNet") ELSE { << >> } }

Feasible(val) ==
    \A zt \in DOMAIN Zone_Energy_Balance : ConstraintHolds(val, Zone_Energy_Balance[zt])

\* The external solver returns any assignment that satisfies every constraint.
solve ==
    /\ phase = "solve"
    /\ \E val \in Candidates :
          /\ Feasible(val)
          /\ value' = val
    /\ status' = "optimal"
    /\ phase' = "done"
    /\ UNCHANGED << module_list, next_mod, attrs, Zone_Power_Injections,
                    Zone_Power_Withdrawals, Distributed_Power_Withdrawals, declared,
                    zone_demand_mw, Zone_Energy_Balance >>
    /\ UNCHANGED << build_vars, storage_vars, tx_vars, project_vars >>

\* ... or reports that there is none.
solve_infeasible ==
    /\ phase = "solve"
    /\ ~ \E val \in Candidates : Feasible(val)
    /\ status' = "infeasible"
    /\ phase' = "done"
    /\ UNCHANGED << module_list, next_mod, attrs, Zone_Power_Injections,
                    Zone_Power_Withdrawals, Distributed_Power_Withdrawals, declared,
                    zone_demand_mw, Zone_Energy_Balance, value >>
    /\ UNCHANGED << build_vars, storage_vars, tx_vars, project_vars >>

\* The shadow prices, in dollars per MWh, that a solve reports for a constraint.
DualLevels == { 0, 35 }

\* timescales: the timestamp of a timepoint
tp_timestamp(t) == IF t = 1 THEN "2020010100" ELSE "2020010112"

\* timescales: the period of the timepoints of Spec, and the hours of a year that a
\* timepoint stands for
LEDGER_PERIODS == { 2020 }
tp_weight_in_year(t) == IF t = 1 THEN 2 ELSE 3

\* The value of a component of the solved model at (z, t).
component_value(c, z, t) ==
    IF c = "zone_demand_mw" THEN zone_demand_mw[<< z, t >>] ELSE value[c][<< z, t >>]

\* load_zones.py:212-217
get_component_per_year(z, p, component) ==
    SumSeq([ t \in 1..Cardinality(TIMEPOINTS) |->
               component_value(component, z, t) * tp_weight_in_year(t) ])

\* The sum of get_component_per_year over the zones.
component_per_year_of_zones(p, component) ==
    get_component_per_year("z1", p, component) + get_component_per_year("z2", p, component)

\* A mutant of the row: the withdrawals are written as they are.
load_balance_values_unsigned(z, t, dual) ==
    << z, tp_timestamp(t), dual >>
        \o [ i \in DOMAIN Zone_Power_Injections |->
               component_value(Zone_Power_Injections[i], z, t) ]
        \o [ i \in DOMAIN Zone_Power_Withdrawals |->
               component_value(Zone_Power_Withdrawals[i], z, t) ]

\* load_zones.py:198-209: the row of load_balance.csv for (z, t), with the dual
\* that get_dual returns for Zone_Energy_Balance[z, t]
load_balance_values(z, t, dual) ==
    << z, tp_timestamp(t), dual >>
        \o [ i \in DOMAIN Zone_Power_Injections |->
               component_value(Zone_Power_Injections[i], z, t) ]
        \o [ i \in DOMAIN Zone_Power_Withdrawals |->
               0 - component_value(Zone_Power_Withdrawals[i], z, t) ]

\* load_zones.py:223-227: the row of load_balance_annual_zonal.csv for (z, p)
load_balance_annual_zonal_values(z, p) ==
    << z, p >>
        \o [ i \in DOMAIN Zone_Power_Injections |->
               get_component_per_year(z, p, Zone_Power_Injections[i]) ]
        \o [ i \in DOMAIN Zone_Power_Withdrawals |->
               0 - get_component_per_year(z, p, Zone_Power_Withdrawals[i]) ]

\* load_zones.py:234-240: the row of load_balance_annual.csv for p
load_balance_annual_values(p) ==
    << p >>
        \o [ i \in DOMAIN Zone_Power_Injections |->
               component_per_year_of_zones(p, Zone_Power_Injections[i]) ]
        \o [ i \in DOMAIN Zone_Power_Withdrawals |->
               0 - component_per_year_of_zones(p, Zone_Power_Withdrawals[i]) ]

\* load_zones.py:170-240: post_solve writes the three tables of a solved model
post_solve ==
    /\ phase = "done"
    /\ status = "optimal"
    /\ DOMAIN outdir = { }
    /\ \E duals \in [ ZONE_TIMEPOINTS -> DualLevels ] :
          outdir' =
              [ load_balance |->
                  [ headings |->
                        << "load_zone", "timestamp",
                           "normalized_energy_balance_duals_dollar_per_mwh" >>
                            \o Zone_Power_Injections \o Zone_Power_Withdrawals,
                    rows |-> [ zt \in ZONE_TIMEPOINTS |->
                                 load_balance_values(zt[1], zt[2], duals[zt]) ] ],
                load_balance_annual_zonal |->
                  [ headings |-> << "load_zone", "period" >>
                                     \o Zone_Power_Injections \o Zone_Power_Withdrawals,
                    rows |-> [ zp \in LOAD_ZONES \X LEDGER_PERIODS |->
                                 load_balance_annual_zonal_values(zp[1], zp[2]) ] ],
                load_balance_annual |->
                  [ headings |-> << "period" >>
                                     \o Zone_Power_Injections \o Zone_Power_Withdrawals,
                    rows |-> [ p \in LEDGER_PERIODS |-> load_balance_annual_values(p) ] ] ]
    /\ UNCHANGED ledger_vars
    /\ UNCHANGED << build_vars, storage_vars, tx_vars, discrete_vars, no_commit_vars,
                    grouping_vars, storage_cost_vars, curtailment_vars >>

(***************************************************************************)
(* Claims about the load-zone ledger.                                      *)
(***************************************************************************)
\* The value at (z, t) of a named component of the solved model.
ValueAt(val, name, z, t) ==
    IF name = "zone_demand_mw" THEN zone_demand_mw[<< z, t >>] ELSE val[name][<< z, t >>]

\* The sum at (z, t) of the components a registry names.
RegistrySum(val, registry, z, t) ==
    SumSeq([ i \in DOMAIN registry |-> ValueAt(val, registry[i], z, t) ])

Balanced(val) ==
    \A z \in LOAD_ZONES, t \in TIMEPOINTS :
        RegistrySum(val, Zone_Power_Injections, z, t)
            = RegistrySum(val, Zone_Power_Withdrawals, z, t)

\* C1: once the model is constructed there is one Zone_Energy_Balance constraint
\* for each pair of LOAD_ZONES x TIMEPOINTS and for nothing else, and the constraints
\* require exactly that at every (z, t) the values of the components named in
\* Zone_Power_Injections sum to the same as those named in Zone_Power_Withdrawals:
\* every solution has the sums equal, and when the solve finds no solution no
\* assignment has them equal.
C1_ZoneEnergyBalance ==
    /\ status # "building" => DOMAIN Zone_Energy_Balance = LOAD_ZONES \X TIMEPOINTS
    /\ status = "optimal" => Balanced(value)
    /\ status = "infeasible" =>
          \A s \in Assignments("StorageNetCharge"), x \in Assignments("TXPowerNet") :
              ~ Balanced([ c \in { "StorageNetCharge", "TXPowerNet" } |->
                            IF c = "StorageNetCharge" THEN s ELSE x ])

\* C1 witness: a solved model with one injection and two withdrawals registered,
\* some power flowing at z1 in timepoint 2 and none at z2 in timepoint 1.
C1_Witness ==
    /\ status = "optimal"
    /\ Len(Zone_Power_Injections) = 1
    /\ Len(Zone_Power_Withdrawals) = 2
    /\ value["TXPowerNet"][<< "z1", 2 >>] = 1
    /\ value["TXPowerNet"][<< "z2", 1 >>] = 0
    /\ zone_demand_mw[<< "z1", 2 >>] = 1

\* The term an engine of the model registers, and the registry it goes to
\* (with a distributed node the demand is registered there instead).
EngineTermsRegistered ==
    /\ "storage" \in Range(module_list)
          => "StorageNetCharge" \in Range(Zone_Power_Withdrawals)
    /\ "tx_dispatch" \in Range(module_list)
          => "TXPowerNet" \in Range(Zone_Power_Injections)
    /\ "local_td" \notin Range(module_list)
          => "zone_demand_mw" \in Range(Zone_Power_Withdrawals)

EveryRegisteredTermSummed ==
    \A zt \in DOMAIN Zone_Energy_Balance :
        /\ \A i \in DOMAIN Zone_Power_Injections :
              << Zone_Power_Injections[i], zt[1], zt[2] >>
                  \in Range(Zone_Energy_Balance[zt].lhs)
        /\ \A i \in DOMAIN Zone_Power_Withdrawals :
              << Zone_Power_Withdrawals[i], zt[1], zt[2] >>
                  \in Range(Zone_Energy_Balance[zt].rhs)

\* C2: the registries are empty when the first engine's define_components starts;
\* no step that ends with the Zone_Energy_Balance constraint declared changes a
\* registry, so every append precedes the constraint; and when the constraint is
\* constructed every engine of the model has registered its term and every
\* registered term is among the terms the constraint sums, in every order of the
\* engines.
C2_AppendsPrecedeBalance ==
    /\ [](phase = "define_components" /\ next_mod = 1
            => Zone_Power_Injections = << >> /\ Zone_Power_Withdrawals = << >>)
    /\ [][ "Zone_Energy_Balance" \in declared'
            => UNCHANGED << Zone_Power_Injections, Zone_Power_Withdrawals >> ]_vars
    /\ []("Zone_Energy_Balance" \in declared => EngineTermsRegistered)
    /\ [](status # "building" => EveryRegisteredTermSummed)

\* C2 witness: a constructed model in which the storage engine ran before the
\* ledger's own define_components and the transmission engine after it.
C2_Witness ==
    /\ status = "constructed"
    /\ module_list = << "storage", "load_zones", "tx_dispatch" >>
    /\ Zone_Power_Withdrawals = << "StorageNetCharge", "zone_demand_mw" >>
    /\ Zone_Power_Injections = << "TXPowerNet" >>
    /\ DOMAIN Zone_Energy_Balance = ZONE_TIMEPOINTS

\* The number of times a name occurs in a registry.
Occurrences(name, registry) == Cardinality({ i \in DOMAIN registry : registry[i] = name })

\* The names the transmission engine declares on the model.
TxNames == { "DispatchTx", "TXPowerNet" }

\* C14: the transmission engine registers one term, TXPowerNet, once, as an
\* injection, and registers no withdrawal; the registries are settled before any
\* net flow has a value and stay so through the solve.
C14_TxRegistersOneInjection ==
    /\ [](/\ Occurrences("TXPowerNet", Zone_Power_Injections)
                 = (IF "TXPowerNet" \in declared THEN 1 ELSE 0)
           /\ Range(Zone_Power_Injections) \cap TxNames \subseteq { "TXPowerNet" }
           /\ Range(Zone_Power_Withdrawals) \cap TxNames = { }
           /\ Range(Distributed_Power_Withdrawals) \cap TxNames = { })
    /\ [][ "TXPowerNet" \in declared' \ declared =>
             /\ Zone_Power_Injections' = Append(Zone_Power_Injections, "TXPowerNet")
             /\ UNCHANGED << Zone_Power_Withdrawals, Distributed_Power_Withdrawals >> ]_vars

\* A solved model with the transmission engine: the net flow into one zone is
\* positive, into the other it is zero, and the term is registered once.
C14_Witness ==
    /\ status = "optimal"
    /\ "TXPowerNet" \in DOMAIN value
    /\ value["TXPowerNet"][<< "z1", 1 >>] > 0
    /\ value["TXPowerNet"][<< "z2", 1 >>] = 0
    /\ Occurrences("TXPowerNet", Zone_Power_Injections) = 1
    /\ "TXPowerNet" \notin Range(Zone_Power_Withdrawals)

(***************************************************************************)
(* The generation build ledger: the input tables.                          *)
(***************************************************************************)
\* The projects of generation_projects_info.csv, and a project that only
\* gen_build_costs.csv names.
ProjectNames == { "g1", "g2" }
UnknownProject == "gx"

\* timescales: the periods.csv tables the model is run on. A period's label need
\* not be its first year, and a length may be odd (the midpoint is then no integer).
PeriodRows(p) ==
    { [ period_start |-> p, period_length_years |-> 10 ],
      [ period_start |-> p - 4, period_length_years |-> 5 ] }

PeriodTables ==
    { [ p \in { 2020 } |-> r ] : r \in PeriodRows(2020) }
        \cup { [ p \in { 2020, 2030 } |-> IF p = 2020 THEN r
                                          ELSE [ period_start |-> 2030,
                                                 period_length_years |-> 10 ] ] :
                 r \in PeriodRows(2020) }

\* build.py:626
_gen_max_cap_for_binary_constraints == 10^5

\* generation_projects_info.csv: g1 varies, g2 is an ordinary project.
ProjectInfoRows ==
    { age @@ lim @@ sto :
        age \in { [ gen_max_age |-> a, gen_retirement_year |-> r, gen_min_build_capacity |-> m ] :
                    a \in { 5, 20 }, r \in { 0, 2028 },
                    m \in { 0, 50, _gen_max_cap_for_binary_constraints + 1 } },
        lim \in { << >>, [ gen_capacity_limit_mw |-> 100 ] },
        sto \in { << >>, [ gen_storage_efficiency |-> << 17, 20 >> ] } }

ProjectInfoTables ==
    { [ g \in ProjectNames |->
          IF g = "g1" THEN r
          ELSE [ gen_max_age |-> 20, gen_retirement_year |-> 0,
                 gen_min_build_capacity |-> 0 ] ] : r \in ProjectInfoRows }

\* gen_build_predetermined.csv: a legacy vintage of g1, larger than g1's capacity
\* limit, with or without an energy capacity, and a vintage of g2 in 2020.
PredeterminedTables ==
    { t1 @@ t2 :
        t1 \in { << >>,
                 [ k \in { << "g1", 2010 >> } |-> [ gen_predetermined_cap |-> 150 ] ],
                 [ k \in { << "g1", 2010 >> } |->
                     [ gen_predetermined_cap |-> 150,
                       gen_predetermined_storage_energy_mwh |-> 24 ] ] },
        t2 \in { << >>,
                 [ k \in { << "g2", 2020 >> } |-> [ gen_predetermined_cap |-> 40 ] ] } }

\* gen_build_costs.csv: any of these rows.
CostRows ==
    { << "g1", 2010 >>, << "g1", 2020 >>, << "g1", 2030 >>, << "g2", 2020 >>,
      << UnknownProject, 2020 >> }

\* The capacities, in MW and in MWh, that a solve chooses among.
BuildLevels ==
    { 0, 30, 40, 50, 150, _gen_max_cap_for_binary_constraints,
      _gen_max_cap_for_binary_constraints + 1 } \cup
    { gen_build_predetermined[k].gen_predetermined_cap : k \in DOMAIN gen_build_predetermined }
EnergyLevels ==
    { 0, 24 } \cup
    { gen_build_predetermined[k].gen_predetermined_storage_energy_mwh :
        k \in { j \in DOMAIN gen_build_predetermined :
                  "gen_predetermined_storage_energy_mwh" \in DOMAIN gen_build_predetermined[j] } }

\* build.py:224 and the columns of generation_projects_info.csv
GENERATION_PROJECTS == DOMAIN generation_projects_info
gen_max_age(g) == generation_projects_info[g].gen_max_age
gen_retirement_year(g) == generation_projects_info[g].gen_retirement_year
gen_min_build_capacity(g) == generation_projects_info[g].gen_min_build_capacity
gen_capacity_limit_mw(g) == generation_projects_info[g].gen_capacity_limit_mw

\* build.py:699-702: the projects whose gen_capacity_limit_mw has a value
CAPACITY_LIMITED_GENS ==
    { g \in GENERATION_PROJECTS :
        "gen_capacity_limit_mw" \in DOMAIN generation_projects_info[g] }

\* storage.py:442-447: the projects whose gen_storage_efficiency has a value
STORAGE_GENS ==
    { g \in GENERATION_PROJECTS :
        "gen_storage_efficiency" \in DOMAIN generation_projects_info[g] }

\* timescales
PERIODS == DOMAIN periods_csv
period_start(p) == periods_csv[p].period_start
period_length_years(p) == periods_csv[p].period_length_years

\* build.py:424-426 and 446-450
PREDETERMINED_GEN_BLD_YRS == DOMAIN gen_build_predetermined
gen_predetermined_cap(g, bld_yr) ==
    gen_build_predetermined[<< g, bld_yr >>].gen_predetermined_cap

\* storage.py:231-235
gen_predetermined_storage_energy_mwh(g, bld_yr) ==
    gen_build_predetermined[<< g, bld_yr >>].gen_predetermined_storage_energy_mwh

RECURSIVE SumOver(_, _)
\* sum(f[x] for x in S)
SumOver(f, S) ==
    IF S = { } THEN 0
    ELSE LET x == CHOOSE y \in S : TRUE IN f[x] + SumOver(f, S \ { x })

RECURSIVE DependentFunctions(_)
\* The functions f on DOMAIN dom with f[x] \in dom[x] for every x.
DependentFunctions(dom) ==
    IF DOMAIN dom = { } THEN { << >> }
    ELSE LET x == CHOOSE y \in DOMAIN dom : TRUE
             rest == DependentFunctions([ y \in DOMAIN dom \ { x } |-> dom[y] ])
         IN  { [ y \in DOMAIN dom |-> IF y = x THEN v ELSE f[y] ] :
                 f \in rest, v \in dom[x] }

\* The build ledger before create_instance constructs its first component.
BuildStart ==
    /\ build_pc = "build_year_sets"
    /\ build_error = "none"
    /\ built = { }
    /\ PREDETERMINED_BLD_YRS = { }
    /\ GEN_BLD_YRS = { }
    /\ NEW_GEN_BLD_YRS = { }
    /\ PERIODS_FOR_GEN_BLD_YR = << >>
    /\ BLD_YRS_FOR_GEN_PERIOD = << >>
    /\ GEN_PERIODS = { }
    /\ BuildGen_bounds = << >>
    /\ BuildGen = << >>
    /\ GenCapacity = << >>
    /\ Max_Build_Potential = { }
    /\ NEW_GEN_WITH_MIN_BUILD_YEARS = { }
    /\ BuildMinGenCap = << >>
    /\ BuildStorageEnergy_bounds = << >>
    /\ BuildStorageEnergy = << >>

InitBuild ==
    /\ periods_csv \in PeriodTables
    /\ generation_projects_info \in ProjectInfoTables
    /\ gen_build_predetermined \in PredeterminedTables
    /\ gen_build_costs \in SUBSET CostRows
    /\ BuildStart

\* The build ledger of a run that is about the load-zone ledger alone.
IdleBuild ==
    /\ periods_csv = << >>
    /\ generation_projects_info = << >>
    /\ gen_build_predetermined = << >>
    /\ gen_build_costs = { }
    /\ build_pc = "idle"
    /\ build_error = "none"
    /\ built = { }
    /\ PREDETERMINED_BLD_YRS = { }
    /\ GEN_BLD_YRS = { }
    /\ NEW_GEN_BLD_YRS = { }
    /\ PERIODS_FOR_GEN_BLD_YR = << >>
    /\ BLD_YRS_FOR_GEN_PERIOD = << >>
    /\ GEN_PERIODS = { }
    /\ BuildGen_bounds = << >>
    /\ BuildGen = << >>
    /\ GenCapacity = << >>
    /\ Max_Build_Potential = { }
    /\ NEW_GEN_WITH_MIN_BUILD_YEARS = { }
    /\ BuildMinGenCap = << >>
    /\ BuildStorageEnergy_bounds = << >>
    /\ BuildStorageEnergy = << >>

\* The load-zone ledger of a run that is about another engine alone.
IdleLedger ==
    /\ module_list = << >>
    /\ phase = "idle"
    /\ next_mod = 1
    /\ attrs = { }
    /\ Zone_Power_Injections = << >>
    /\ Zone_Power_Withdrawals = << >>
    /\ Distributed_Power_Withdrawals = << >>
    /\ declared = { }
    /\ zone_demand_mw = << >>
    /\ Zone_Energy_Balance = << >>
    /\ value = << >>
    /\ status = "idle"

(***************************************************************************)
(* The generation build ledger: construction, in the order of declaration. *)
(***************************************************************************)
\* build.py:427-432
PREDETERMINED_BLD_YRS_init == { k[2] : k \in PREDETERMINED_GEN_BLD_YRS }

\* A mutant of the validation: any row of a known project is accepted.
GEN_BLD_YRS_validate_any_year(g, bld_yr) ==
    \/ << g, bld_yr >> \in PREDETERMINED_GEN_BLD_YRS
    \/ g \in GENERATION_PROJECTS

\* build.py:438-441
GEN_BLD_YRS_validate(g, bld_yr) ==
    \/ << g, bld_yr >> \in PREDETERMINED_GEN_BLD_YRS
    \/ << g, bld_yr >> \in GENERATION_PROJECTS \X PERIODS

\* build.py:423-451: PREDETERMINED_BLD_YRS, then GEN_BLD_YRS, whose construction
\* raises on the first row that fails its validation, then NEW_GEN_BLD_YRS.
construct_build_year_sets ==
    /\ build_pc = "build_year_sets"
    /\ PREDETERMINED_BLD_YRS' = PREDETERMINED_BLD_YRS_init
    /\ IF \A k \in gen_build_costs : GEN_BLD_YRS_validate(k[1], k[2])
       THEN /\ GEN_BLD_YRS' = gen_build_costs
            /\ NEW_GEN_BLD_YRS' = gen_build_costs \ PREDETERMINED_GEN_BLD_YRS
            /\ built' = built \cup { "PREDETERMINED_BLD_YRS", "GEN_BLD_YRS",
                                     "NEW_GEN_BLD_YRS" }
            /\ build_pc' = "build_check"
            /\ UNCHANGED build_error
       ELSE /\ built' = built \cup { "PREDETERMINED_BLD_YRS" }
            /\ build_error' = "GEN_BLD_YRS"
            /\ build_pc' = "error"
            /\ UNCHANGED << GEN_BLD_YRS, NEW_GEN_BLD_YRS >>
    /\ UNCHANGED << build_inputs, PERIODS_FOR_GEN_BLD_YR, BLD_YRS_FOR_GEN_PERIOD,
                    GEN_PERIODS, BuildGen_bounds, BuildGen, GenCapacity,
                    Max_Build_Potential, NEW_GEN_WITH_MIN_BUILD_YEARS, BuildMinGenCap,
                    BuildStorageEnergy_bounds, BuildStorageEnergy >>
    /\ UNCHANGED << ledger_vars, storage_vars, tx_vars, project_vars >>

\* A mutant of the check: the build year is compared with the first year of the period.
no_predetermined_bld_yr_vs_period_conflict_rule_start(bld_yr, p) ==
    bld_yr # period_start(p)

\* build.py:491: rule=lambda m, bld_yr, p: bld_yr != p
no_predetermined_bld_yr_vs_period_conflict_rule(bld_yr, p) == bld_yr # p

\* build.py:487-492: the BuildCheck over PREDETERMINED_BLD_YRS x PERIODS raises
\* when its rule is false for a member of its index set.
no_predetermined_bld_yr_vs_period_conflict ==
    /\ build_pc = "build_check"
    /\ IF \A bld_yr \in PREDETERMINED_BLD_YRS, p \in PERIODS :
             no_predetermined_bld_yr_vs_period_conflict_rule(bld_yr, p)
       THEN /\ built' = built \cup { "no_predetermined_bld_yr_vs_period_conflict" }
            /\ build_pc' = "operability_sets"
            /\ UNCHANGED build_error
       ELSE /\ build_error' = "no_predetermined_bld_yr_vs_period_conflict"
            /\ build_pc' = "error"
            /\ UNCHANGED built
    /\ UNCHANGED << build_inputs, build_components >>
    /\ UNCHANGED << ledger_vars, storage_vars, tx_vars, project_vars >>

\* A mutant of the test: the first year of the period is the cutoff, as in the
\* version that build.py:478 recalls.
gen_build_can_operate_in_period_start(g, build_year, period) ==
    LET online == IF build_year \in PERIODS
                  THEN period_start(build_year) ELSE build_year
        retirement == IF gen_retirement_year(g) = 0
                      THEN online + gen_max_age(g) ELSE gen_retirement_year(g)
    IN  /\ online <= period_start(period)
        /\ period_start(period) < retirement

\* build.py:460-485. The cutoff period_start + 0.5 * period_length_years is compared
\* doubled, which keeps it an integer.
gen_build_can_operate_in_period(g, build_year, period) ==
    LET online == IF build_year \in PERIODS
                  THEN period_start(build_year) ELSE build_year
        retirement == IF gen_retirement_year(g) = 0
                      THEN online + gen_max_age(g) ELSE gen_retirement_year(g)
    IN  /\ 2 * online <= 2 * period_start(period) + period_length_years(period)
        /\ 2 * period_start(period) + period_length_years(period) < 2 * retirement

\* build.py:506-512
BLD_YRS_FOR_GEN(g) == { k[2] : k \in { kk \in GEN_BLD_YRS : kk[1] = g } }

\* A mutant of the set: every period counts as one in which the project operates.
PERIODS_FOR_GEN_every_period(g) == PERIODS

\* build.py:527-532
PERIODS_FOR_GEN(g) ==
    { p \in PERIODS : Cardinality(BLD_YRS_FOR_GEN_PERIOD[<< g, p >>]) > 0 }

\* build.py:494-532
construct_operability_sets ==
    /\ build_pc = "operability_sets"
    /\ PERIODS_FOR_GEN_BLD_YR' =
          [ k \in GEN_BLD_YRS |->
              { period \in PERIODS :
                  gen_build_can_operate_in_period(k[1], k[2], period) } ]
    /\ BLD_YRS_FOR_GEN_PERIOD' =
          [ gp \in GENERATION_PROJECTS \X PERIODS |->
              { bld_yr \in BLD_YRS_FOR_GEN(gp[1]) :
                  gen_build_can_operate_in_period(gp[1], bld_yr, gp[2]) } ]
    /\ built' = built \cup { "PERIODS_FOR_GEN_BLD_YR", "BLD_YRS_FOR_GEN",
                             "BLD_YRS_FOR_GEN_PERIOD", "PERIODS_FOR_GEN" }
    /\ build_pc' = "BuildGen"
    /\ UNCHANGED << build_inputs, build_error, PREDETERMINED_BLD_YRS, GEN_BLD_YRS,
                    NEW_GEN_BLD_YRS, GEN_PERIODS, BuildGen_bounds, BuildGen,
                    GenCapacity, Max_Build_Potential, NEW_GEN_WITH_MIN_BUILD_YEARS,
                    BuildMinGenCap, BuildStorageEnergy_bounds, BuildStorageEnergy >>
    /\ UNCHANGED << ledger_vars, storage_vars, tx_vars, project_vars >>

\* A mutant of the bounds: the capacity limit is looked at before the predetermined set.
bounds_BuildGen_limit_first(g, bld_yr) ==
    IF g \in CAPACITY_LIMITED_GENS
    THEN [ lb |-> 0, ub |-> gen_capacity_limit_mw(g) ]
    ELSE IF << g, bld_yr >> \in PREDETERMINED_GEN_BLD_YRS
    THEN [ lb |-> gen_predetermined_cap(g, bld_yr),
           ub |-> gen_predetermined_cap(g, bld_yr) ]
    ELSE [ lb |-> 0 ]

\* build.py:534-545. A bound of None is a record without the field.
bounds_BuildGen(g, bld_yr) ==
    IF << g, bld_yr >> \in PREDETERMINED_GEN_BLD_YRS
    THEN [ lb |-> gen_predetermined_cap(g, bld_yr),
           ub |-> gen_predetermined_cap(g, bld_yr) ]
    ELSE IF g \in CAPACITY_LIMITED_GENS
    THEN [ lb |-> 0, ub |-> gen_capacity_limit_mw(g) ]
    ELSE [ lb |-> 0 ]

\* build.py:547-559: the variable with its bounds, then the BuildAction that gives
\* every predetermined vintage its value; the assignment raises KeyError for a
\* vintage that is no index of BuildGen.
construct_BuildGen ==
    /\ build_pc = "BuildGen"
    /\ BuildGen_bounds' = [ k \in GEN_BLD_YRS |-> bounds_BuildGen(k[1], k[2]) ]
    /\ IF PREDETERMINED_GEN_BLD_YRS \subseteq GEN_BLD_YRS
       THEN /\ BuildGen' = [ k \in PREDETERMINED_GEN_BLD_YRS |->
                               gen_predetermined_cap(k[1], k[2]) ]
            /\ built' = built \cup { "BuildGen", "BuildGen_assign_default_value" }
            /\ build_pc' = "capacity"
            /\ UNCHANGED build_error
       ELSE /\ built' = built \cup { "BuildGen" }
            /\ build_error' = "BuildGen_assign_default_value"
            /\ build_pc' = "error"
            /\ UNCHANGED BuildGen
    /\ UNCHANGED << build_inputs, PREDETERMINED_BLD_YRS, GEN_BLD_YRS, NEW_GEN_BLD_YRS,
                    PERIODS_FOR_GEN_BLD_YR, BLD_YRS_FOR_GEN_PERIOD, GEN_PERIODS,
                    GenCapacity, Max_Build_Potential, NEW_GEN_WITH_MIN_BUILD_YEARS,
                    BuildMinGenCap, BuildStorageEnergy_bounds, BuildStorageEnergy >>
    /\ UNCHANGED << ledger_vars, storage_vars, tx_vars, project_vars >>

\* A mutant of the expression: every build year of the project is summed.
GenCapacity_rule_all_vintages(g, period) == BLD_YRS_FOR_GEN(g)

\* build.py:580-582: the build years whose BuildGen the expression sums.
GenCapacity_rule(g, period) == BLD_YRS_FOR_GEN_PERIOD[<< g, period >>]

\* build.py:561-597
construct_capacity ==
    /\ build_pc = "capacity"
    /\ GEN_PERIODS' = { gp \in GENERATION_PROJECTS \X PERIODS :
                          gp[2] \in PERIODS_FOR_GEN(gp[1]) }
    /\ GenCapacity' = [ gp \in GENERATION_PROJECTS \X PERIODS |->
                          GenCapacity_rule(gp[1], gp[2]) ]
    /\ Max_Build_Potential' = CAPACITY_LIMITED_GENS \X PERIODS
    /\ built' = built \cup { "GEN_PERIODS", "GenCapacity", "Max_Build_Potential" }
    /\ build_pc' = "min_build"
    /\ UNCHANGED << build_inputs, build_error, PREDETERMINED_BLD_YRS, GEN_BLD_YRS,
                    NEW_GEN_BLD_YRS, PERIODS_FOR_GEN_BLD_YR, BLD_YRS_FOR_GEN_PERIOD,
                    BuildGen_bounds, BuildGen, NEW_GEN_WITH_MIN_BUILD_YEARS,
                    BuildMinGenCap, BuildStorageEnergy_bounds, BuildStorageEnergy >>
    /\ UNCHANGED << ledger_vars, storage_vars, tx_vars, project_vars >>

\* build.py:599-633: the index set of BuildMinGenCap and of the two constraints.
construct_min_build ==
    /\ build_pc = "min_build"
    /\ NEW_GEN_WITH_MIN_BUILD_YEARS' =
          { k \in NEW_GEN_BLD_YRS : gen_min_build_capacity(k[1]) > 0 }
    /\ built' = built \cup { "NEW_GEN_WITH_MIN_BUILD_YEARS", "BuildMinGenCap",
                             "Enforce_Min_Build_Lower", "Enforce_Min_Build_Upper" }
    /\ build_pc' = "storage_build"
    /\ UNCHANGED << build_inputs, build_error, PREDETERMINED_BLD_YRS, GEN_BLD_YRS,
                    NEW_GEN_BLD_YRS, PERIODS_FOR_GEN_BLD_YR, BLD_YRS_FOR_GEN_PERIOD,
                    GEN_PERIODS, BuildGen_bounds, BuildGen, GenCapacity,
                    Max_Build_Potential, BuildMinGenCap, BuildStorageEnergy_bounds,
                    BuildStorageEnergy >>
    /\ UNCHANGED << ledger_vars, storage_vars, tx_vars, project_vars >>

\* storage.py:219-224
STORAGE_GEN_BLD_YRS ==
    { k \in STORAGE_GENS \X UNION { BLD_YRS_FOR_GEN(g) : g \in STORAGE_GENS } :
        k[2] \in BLD_YRS_FOR_GEN(k[1]) }

\* storage.py:236-240: the predetermined vintages whose energy capacity has a value
PREDETERMINED_STORAGE_GEN_BLD_YRS ==
    { k \in PREDETERMINED_GEN_BLD_YRS :
        "gen_predetermined_storage_energy_mwh" \in DOMAIN gen_build_predetermined[k] }

\* A mutant of the bounds: a predetermined energy capacity is only a lower bound.
bounds_BuildStorageEnergy_open(g, bld_yr) ==
    IF << g, bld_yr >> \in PREDETERMINED_STORAGE_GEN_BLD_YRS
    THEN [ lb |-> gen_predetermined_storage_energy_mwh(g, bld_yr) ]
    ELSE [ lb |-> 0 ]

\* storage.py:242-249
bounds_BuildStorageEnergy(g, bld_yr) ==
    IF << g, bld_yr >> \in PREDETERMINED_STORAGE_GEN_BLD_YRS
    THEN [ lb |-> gen_predetermined_storage_energy_mwh(g, bld_yr),
           ub |-> gen_predetermined_storage_energy_mwh(g, bld_yr) ]
    ELSE [ lb |-> 0 ]

\* storage.py:219-275: the variable with its bounds, then the BuildAction over
\* PREDETERMINED_STORAGE_GEN_BLD_YRS, whose assignment raises KeyError for a
\* vintage that is no index of BuildStorageEnergy.
construct_storage_build ==
    /\ build_pc = "storage_build"
    /\ BuildStorageEnergy_bounds' =
          [ k \in STORAGE_GEN_BLD_YRS |-> bounds_BuildStorageEnergy(k[1], k[2]) ]
    /\ IF PREDETERMINED_STORAGE_GEN_BLD_YRS \subseteq STORAGE_GEN_BLD_YRS
       THEN /\ BuildStorageEnergy' =
                  [ k \in PREDETERMINED_STORAGE_GEN_BLD_YRS |->
                      gen_predetermined_storage_energy_mwh(k[1], k[2]) ]
            /\ built' = built \cup { "BuildStorageEnergy",
                                     "BuildStorageEnergy_assign_default_value" }
            /\ build_pc' = "solve"
            /\ UNCHANGED build_error
       ELSE /\ built' = built \cup { "BuildStorageEnergy" }
            /\ build_error' = "BuildStorageEnergy_assign_default_value"
            /\ build_pc' = "error"
            /\ UNCHANGED BuildStorageEnergy
    /\ UNCHANGED << build_inputs, PREDETERMINED_BLD_YRS, GEN_BLD_YRS, NEW_GEN_BLD_YRS,
                    PERIODS_FOR_GEN_BLD_YR, BLD_YRS_FOR_GEN_PERIOD, GEN_PERIODS,
                    BuildGen_bounds, BuildGen, GenCapacity, Max_Build_Potential,
                    NEW_GEN_WITH_MIN_BUILD_YEARS, BuildMinGenCap >>
    /\ UNCHANGED << ledger_vars, storage_vars, tx_vars, project_vars >>

(***************************************************************************)
(* The generation build ledger: the solve.                                 *)
(***************************************************************************)
\* A value within the bounds of a variable whose domain is NonNegativeReals.
InBounds(v, b) ==
    /\ v >= 0
    /\ v >= b.lb
    /\ "ub" \in DOMAIN b => v <= b.ub

\* The value of GenCapacity[g, p] when BuildGen has the values bg.
GenCapacity_value(bg, g, p) ==
    SumOver([ bld_yr \in GenCapacity[<< g, p >>] |-> bg[<< g, bld_yr >>] ],
            GenCapacity[<< g, p >>])

\* A mutant of the constraint: only the new vintages count towards the limit.
Max_Build_Potential_rule_new_only(bg, g, p) ==
    gen_capacity_limit_mw(g) * 1 >=
       SumOver([ bld_yr \in GenCapacity[<< g, p >>] |->
                   IF << g, bld_yr >> \in NEW_GEN_BLD_YRS
                   THEN bg[<< g, bld_yr >>] ELSE 0 ],
               GenCapacity[<< g, p >>]) * 1

\* build.py:589-597: both sides carry the scaling factor 1e-1, here 1/10.
Max_Build_Potential_rule(bg, g, p) ==
    gen_capacity_limit_mw(g) * 1 >= GenCapacity_value(bg, g, p) * 1

\* A mutant of the constraint: the minimum is required whatever the gate.
Enforce_Min_Build_Lower_rule_ungated(bg, gate, g, p) ==
    gen_min_build_capacity(g) <= bg[<< g, p >>]

\* build.py:613-618
Enforce_Min_Build_Lower_rule(bg, gate, g, p) ==
    gate[<< g, p >>] * gen_min_build_capacity(g) <= bg[<< g, p >>]

\* A mutant of the constraint: the gate is left out of the upper limit.
Enforce_Min_Build_Upper_rule_ungated(bg, gate, g, p) ==
    bg[<< g, p >>] <= _gen_max_cap_for_binary_constraints

\* build.py:627-633
Enforce_Min_Build_Upper_rule(bg, gate, g, p) ==
    bg[<< g, p >>] <= gate[<< g, p >>] * _gen_max_cap_for_binary_constraints

BuildFeasible(bg, gate) ==
    /\ \A gp \in Max_Build_Potential : Max_Build_Potential_rule(bg, gp[1], gp[2])
    /\ \A k \in NEW_GEN_WITH_MIN_BUILD_YEARS :
          /\ Enforce_Min_Build_Lower_rule(bg, gate, k[1], k[2])
          /\ Enforce_Min_Build_Upper_rule(bg, gate, k[1], k[2])

\* The candidate values of the build variables: within the bounds of each.
BuildGen_candidates ==
    DependentFunctions([ k \in DOMAIN BuildGen_bounds |->
                           { v \in BuildLevels : InBounds(v, BuildGen_bounds[k]) } ])

BuildStorageEnergy_candidates ==
    DependentFunctions([ k \in DOMAIN BuildStorageEnergy_bounds |->
                           { v \in EnergyLevels :
                               InBounds(v, BuildStorageEnergy_bounds[k]) } ])

\* build.py:612: within=Binary
BuildMinGenCap_candidates == [NEW_GEN_WITH_MIN_BUILD_YEARS -> { 0, 1 }]

\* The external solver returns any assignment that satisfies the bounds and the
\* constraints ...
solve_build ==
    /\ build_pc = "solve"
    /\ \E bg \in BuildGen_candidates, gate \in BuildMinGenCap_candidates,
          en \in BuildStorageEnergy_candidates :
          /\ BuildFeasible(bg, gate)
          /\ BuildGen' = bg
          /\ BuildMinGenCap' = gate
          /\ BuildStorageEnergy' = en
    /\ build_pc' = "solved"
    /\ UNCHANGED << build_inputs, build_error, built, PREDETERMINED_BLD_YRS,
                    GEN_BLD_YRS, NEW_GEN_BLD_YRS, PERIODS_FOR_GEN_BLD_YR,
                    BLD_YRS_FOR_GEN_PERIOD, GEN_PERIODS, BuildGen_bounds, GenCapacity,
                    Max_Build_Potential, NEW_GEN_WITH_MIN_BUILD_YEARS,
                    BuildStorageEnergy_bounds >>
    /\ UNCHANGED << ledger_vars, storage_vars, tx_vars, project_vars >>

\* ... or reports that there is none.
solve_build_infeasible ==
    /\ build_pc = "solve"
    /\ ~ \E bg \in BuildGen_candidates, gate \in BuildMinGenCap_candidates :
          BuildFeasible(bg, gate)
    /\ build_pc' = "infeasible"
    /\ UNCHANGED << build_inputs, build_error, built, build_components >>
    /\ UNCHANGED << ledger_vars, storage_vars, tx_vars, project_vars >>

NextBuild ==
    \/ construct_build_year_sets
    \/ no_predetermined_bld_yr_vs_period_conflict
    \/ construct_operability_sets
    \/ construct_BuildGen
    \/ construct_capacity
    \/ construct_min_build
    \/ construct_storage_build
    \/ solve_build
    \/ solve_build_infeasible

(***************************************************************************)
(* Claims about the generation build ledger.                               *)
(***************************************************************************)
\* A bound record that pins a variable to v.
Pinned(b, v) == b.lb = v /\ "ub" \in DOMAIN b /\ b.ub = v

\* C5: once BuildGen is constructed, every predetermined vintage that is an index
\* of it has lower bound = upper bound = gen_predetermined_cap, limited project or
\* not; once the BuildAction has run every predetermined vintage is an index and
\* holds that value, operable in some period or in none, and a solve leaves it so.
\* Likewise BuildStorageEnergy is pinned to, and holds,
\* gen_predetermined_storage_energy_mwh for every predetermined vintage that has
\* that value.
C5_PredeterminedPinned ==
    /\ "BuildGen" \in built =>
          \A k \in PREDETERMINED_GEN_BLD_YRS \cap GEN_BLD_YRS :
              Pinned(BuildGen_bounds[k],
                     gen_build_predetermined[k].gen_predetermined_cap)
    /\ "BuildGen_assign_default_value" \in built =>
          \A k \in PREDETERMINED_GEN_BLD_YRS :
              /\ k \in DOMAIN BuildGen
              /\ BuildGen[k] = gen_build_predetermined[k].gen_predetermined_cap
    /\ "BuildStorageEnergy_assign_default_value" \in built =>
          \A k \in PREDETERMINED_GEN_BLD_YRS :
              "gen_predetermined_storage_energy_mwh" \in DOMAIN gen_build_predetermined[k]
                  => /\ k \in DOMAIN BuildStorageEnergy
                     /\ Pinned(BuildStorageEnergy_bounds[k],
                               gen_build_predetermined[k].gen_predetermined_storage_energy_mwh)
                     /\ BuildStorageEnergy[k] =
                           gen_build_predetermined[k].gen_predetermined_storage_energy_mwh

\* C5 witness: a solved model whose predetermined vintage (g1, 2010) of 150 MW and
\* 24 MWh exceeds g1's limit of 100 MW and is operable in no period.
C5_Witness ==
    /\ build_pc = "solved"
    /\ << "g1", 2010 >> \in PREDETERMINED_GEN_BLD_YRS
    /\ "g1" \in CAPACITY_LIMITED_GENS
    /\ PERIODS_FOR_GEN_BLD_YR[<< "g1", 2010 >>] = { }
    /\ BuildGen[<< "g1", 2010 >>] = 150
    /\ << "g1", 2010 >> \in DOMAIN BuildStorageEnergy
    /\ BuildStorageEnergy[<< "g1", 2010 >>] = 24
    /\ << "g1", 2020 >> \in NEW_GEN_BLD_YRS

\* C6: in a solved model, for every project g and period p, GenCapacity[g, p] is
\* the sum of BuildGen[g, b] over exactly the vintages (g, b) of GEN_BLD_YRS that
\* have p among their operable periods, and it is not negative.
C6_GenCapacity ==
    build_pc = "solved" =>
        \A g \in GENERATION_PROJECTS, p \in PERIODS :
            LET operable == { k \in GEN_BLD_YRS :
                                k[1] = g /\ p \in PERIODS_FOR_GEN_BLD_YR[k] }
            IN  /\ GenCapacity_value(BuildGen, g, p) = SumOver(BuildGen, operable)
                /\ GenCapacity_value(BuildGen, g, p) >= 0

\* C6 witness: a solved model in which GenCapacity[g1, 2020] sums a predetermined
\* and a new vintage, a third vintage of g1 is not counted, and g2 has no vintage.
C6_Witness ==
    /\ build_pc = "solved"
    /\ PERIODS = { 2020, 2030 }
    /\ GenCapacity[<< "g1", 2020 >>] = { 2010, 2020 }
    /\ << "g1", 2030 >> \in GEN_BLD_YRS
    /\ BuildGen[<< "g1", 2020 >>] = 30
    /\ BuildGen[<< "g1", 2030 >>] = 50
    /\ GenCapacity_value(BuildGen, "g1", 2020) = 180
    /\ GenCapacity_value(BuildGen, "g2", 2020) = 0

\* The test as the claim states it, cleared of the fraction.
OperableAsClaimed(g, b, p) ==
    LET online == IF b \in DOMAIN periods_csv THEN periods_csv[b].period_start ELSE b
        retirement == IF generation_projects_info[g].gen_retirement_year = 0
                      THEN online + generation_projects_info[g].gen_max_age
                      ELSE generation_projects_info[g].gen_retirement_year
        twice_midpoint == 2 * periods_csv[p].period_start
                              + periods_csv[p].period_length_years
    IN  2 * online <= twice_midpoint /\ twice_midpoint < 2 * retirement

\* C7: once the operability sets are constructed, a vintage (g, b) has period p in
\* PERIODS_FOR_GEN_BLD_YR[g, b], and b in BLD_YRS_FOR_GEN_PERIOD[g, p], exactly when
\* online <= period_start[p] + period_length_years[p] / 2 < retirement, with online
\* the first year of period b when b is a period label and b otherwise, and
\* retirement online + gen_max_age[g] when gen_retirement_year[g] is 0 and
\* gen_retirement_year[g] otherwise.
C7_OperablePeriods ==
    "PERIODS_FOR_GEN_BLD_YR" \in built =>
        \A k \in GEN_BLD_YRS, p \in PERIODS :
            /\ p \in PERIODS_FOR_GEN_BLD_YR[k] <=> OperableAsClaimed(k[1], k[2], p)
            /\ k[2] \in BLD_YRS_FOR_GEN_PERIOD[<< k[1], p >>]
                  <=> OperableAsClaimed(k[1], k[2], p)

\* C7 witness: period 2020 starts in 2016 and lasts 5 years (midpoint 2018.5); the
\* legacy vintage of g1 with gen_retirement_year 2028 runs in 2020 and not in 2030,
\* and the new vintage (g1, 2030) does not run in 2020.
C7_Witness ==
    /\ "PERIODS_FOR_GEN_BLD_YR" \in built
    /\ PERIODS = { 2020, 2030 }
    /\ period_start(2020) = 2016
    /\ gen_retirement_year("g1") = 2028
    /\ << "g1", 2010 >> \in GEN_BLD_YRS
    /\ PERIODS_FOR_GEN_BLD_YR[<< "g1", 2010 >>] = { 2020 }
    /\ << "g1", 2030 >> \in GEN_BLD_YRS
    /\ 2020 \notin PERIODS_FOR_GEN_BLD_YR[<< "g1", 2030 >>]

\* A value of BuildGen[g, b] within its bounds that satisfies both minimum-build
\* constraints when BuildMinGenCap[g, b] is on.
BranchFeasible(k, on) ==
    \E v \in BuildLevels :
        LET bg == [ j \in { k } |-> v ]
            gate == [ j \in { k } |-> on ]
        IN  /\ InBounds(v, BuildGen_bounds[k])
            /\ Enforce_Min_Build_Lower_rule(bg, gate, k[1], k[2])
            /\ Enforce_Min_Build_Upper_rule(bg, gate, k[1], k[2])

\* What a solved model has at a gated vintage.
GateForcesBuild ==
    build_pc = "solved" =>
        \A k \in NEW_GEN_WITH_MIN_BUILD_YEARS :
            /\ BuildMinGenCap[k] = 0 => BuildGen[k] = 0
            /\ BuildMinGenCap[k] = 1 =>
                  /\ gen_min_build_capacity(k[1]) <= BuildGen[k]
                  /\ BuildGen[k] <= 10 ^ 5

\* The gated vintages are the new ones of the projects with a minimum.
OnlyNewWithMinimumGated ==
    "Enforce_Min_Build_Upper" \in built =>
        /\ NEW_GEN_WITH_MIN_BUILD_YEARS \cap PREDETERMINED_GEN_BLD_YRS = { }
        /\ \A k \in GEN_BLD_YRS :
              k \in NEW_GEN_WITH_MIN_BUILD_YEARS
                  <=> /\ k \notin PREDETERMINED_GEN_BLD_YRS
                      /\ generation_projects_info[k[1]].gen_min_build_capacity > 0

Collision ==
    \E k \in DOMAIN gen_build_predetermined, p \in DOMAIN periods_csv : k[2] = p

\* The operability and capacity sets, the variables and the constraints.
CapacityComponents ==
    { "PERIODS_FOR_GEN_BLD_YR", "BLD_YRS_FOR_GEN", "BLD_YRS_FOR_GEN_PERIOD",
      "PERIODS_FOR_GEN", "BuildGen", "BuildGen_assign_default_value", "GEN_PERIODS",
      "GenCapacity", "Max_Build_Potential", "NEW_GEN_WITH_MIN_BUILD_YEARS",
      "BuildMinGenCap", "Enforce_Min_Build_Lower", "Enforce_Min_Build_Upper",
      "BuildStorageEnergy", "BuildStorageEnergy_assign_default_value" }

\* C9: when the year of a predetermined build of any project is the label of a
\* period, the construction never gets past the check: it ends in an error with no
\* operability or capacity set, variable or constraint constructed; and the check
\* itself fails only on such a collision.
C9_PredeterminedPeriodConflict ==
    /\ Collision =>
          /\ build_pc \in { "build_year_sets", "build_check", "error" }
          /\ built \cap CapacityComponents = { }
    /\ build_error = "no_predetermined_bld_yr_vs_period_conflict" => Collision
    /\ ~ Collision /\ build_pc \notin { "build_year_sets", "build_check", "error" }
          => "no_predetermined_bld_yr_vs_period_conflict" \in built

\* C9 witness: the check rejects a model because g2 was built in 2020, the label
\* of a period that starts in 2016, while only g1 has new vintages.
C9_Witness ==
    /\ build_error = "no_predetermined_bld_yr_vs_period_conflict"
    /\ build_pc = "error"
    /\ << "g2", 2020 >> \in PREDETERMINED_GEN_BLD_YRS
    /\ period_start(2020) = 2016
    /\ GEN_BLD_YRS = { << "g1", 2020 >>, << "g2", 2020 >> }

\* A row of gen_build_costs that the claim lets into GEN_BLD_YRS.
AcceptableRow(k) ==
    \/ k \in DOMAIN gen_build_predetermined
    \/ k[1] \in DOMAIN generation_projects_info /\ k[2] \in DOMAIN periods_csv

\* C10: GEN_BLD_YRS, once constructed, holds the rows of gen_build_costs and every
\* one of them is a predetermined vintage or pairs a known project with a period
\* label; a table with any other row makes the construction fail at GEN_BLD_YRS.
C10_BuildYearValidation ==
    /\ "GEN_BLD_YRS" \in built =>
          /\ GEN_BLD_YRS = gen_build_costs
          /\ \A k \in GEN_BLD_YRS : AcceptableRow(k)
    /\ (\E k \in gen_build_costs : ~ AcceptableRow(k)) =>
          /\ build_pc \in { "build_year_sets", "error" }
          /\ build_pc = "error" => build_error = "GEN_BLD_YRS"
          /\ "GEN_BLD_YRS" \notin built

\* C10 witness: the construction fails on the row (g1, 2010) of a known project,
\* 2010 being neither predetermined nor a period, with every other row acceptable.
C10_Witness ==
    /\ build_pc = "error"
    /\ build_error = "GEN_BLD_YRS"
    /\ gen_build_costs = { << "g1", 2010 >>, << "g1", 2020 >> }
    /\ PREDETERMINED_GEN_BLD_YRS = { }

\* C11: once BuildGen is constructed, every new vintage of a project that has a
\* gen_capacity_limit_mw is bounded to [0, gen_capacity_limit_mw] and every new
\* vintage of a project that has none is bounded below by 0 and not above; and in
\* a solved model, for every project with a limit and every period, what the
\* vintages that run in the period have built, predetermined ones included, sums
\* to no more than the limit.
C11_CapacityLimit ==
    /\ "BuildGen" \in built =>
          \A k \in NEW_GEN_BLD_YRS :
              IF "gen_capacity_limit_mw" \in DOMAIN generation_projects_info[k[1]]
              THEN BuildGen_bounds[k] =
                      [ lb |-> 0,
                        ub |-> generation_projects_info[k[1]].gen_capacity_limit_mw ]
              ELSE BuildGen_bounds[k] = [ lb |-> 0 ]
    /\ build_pc = "solved" =>
          \A g \in DOMAIN generation_projects_info, p \in DOMAIN periods_csv :
              "gen_capacity_limit_mw" \in DOMAIN generation_projects_info[g] =>
                  /\ SumOver(BuildGen,
                             { k \in GEN_BLD_YRS :
                                 k[1] = g /\ p \in PERIODS_FOR_GEN_BLD_YR[k] })
                        <= generation_projects_info[g].gen_capacity_limit_mw
                  /\ \A k \in NEW_GEN_BLD_YRS :
                        k[1] = g =>
                            /\ 0 <= BuildGen[k]
                            /\ BuildGen[k] <=
                                  generation_projects_info[g].gen_capacity_limit_mw

\* C11 witness: a solved model in which the vintages of 2020 and of 2030 of g1,
\* limited to 100 MW, have built 50 MW each and both run in 2030, while g2, which
\* has no limit, has built more than 10^5 MW.
C11_Witness ==
    /\ build_pc = "solved"
    /\ "g1" \in CAPACITY_LIMITED_GENS
    /\ NEW_GEN_BLD_YRS = { << "g1", 2020 >>, << "g1", 2030 >>, << "g2", 2020 >> }
    /\ BuildGen[<< "g1", 2020 >>] = 50
    /\ BuildGen[<< "g1", 2030 >>] = 50
    /\ GenCapacity_value(BuildGen, "g1", 2030) = 100
    /\ BuildGen[<< "g2", 2020 >>] = 10 ^ 5 + 1

(***************************************************************************)
(* The storage operation engine: exact arithmetic.                         *)
(***************************************************************************)
RECURSIVE GCD(_, _)
GCD(a, b) == IF b = 0 THEN a ELSE GCD(b, a % b)

Abs(n) == IF n < 0 THEN 0 - n ELSE n

\* The rational n / d in lowest terms with a positive denominator.
Rat(n, d) ==
    LET g == GCD(Abs(n), Abs(d))
        sgn == IF d < 0 THEN 0 - 1 ELSE 1
    IN  << (sgn * n) \div g, (sgn * d) \div g >>

RInt(n) == << n, 1 >>
RAdd(a, b) == Rat(a[1] * b[2] + b[1] * a[2], a[2] * b[2])
RSub(a, b) == Rat(a[1] * b[2] - b[1] * a[2], a[2] * b[2])
RMul(a, b) == Rat(a[1] * b[1], a[2] * b[2])
RDiv(a, b) == Rat(a[1] * b[2], a[2] * b[1])
RLe(a, b) == a[1] * b[2] <= b[1] * a[2]

RECURSIVE RSumOver(_, _)
\* The sum of the rationals f[x] over the x in S.
RSumOver(f, S) ==
    IF S = { } THEN RInt(0)
    ELSE LET x == CHOOSE y \in S : TRUE IN RAdd(f[x], RSumOver(f, S \ { x }))

\* The integer whose square is n.
ISqrt(n) == CHOOSE k \in 0 .. n : k * k = n

\* base ** exponent, for the exponents tp_duration_hrs / 24 that the timepoint
\* tables give: a day and half a day.
RPow(base, exponent) ==
    IF exponent = << 1, 1 >> THEN base
    ELSE IF exponent = << 1, 2 >> THEN << ISqrt(base[1]), ISqrt(base[2]) >>
    ELSE << 1, 1 >>

\* math.log, to three decimals, at the arguments 1 - gen_self_discharge_rate that
\* the project tables give; math.log(0) raises ValueError and has no value here.
math_log(x) == IF x = << 1, 1 >> THEN << 0, 1 >> ELSE Rat(0 - 1386, 1000)

(***************************************************************************)
(* The storage operation engine: the input tables.                         *)
(***************************************************************************)
\* The hours of a timepoint: half a day or a day.
Durations == { 12, 24 }

\* periods.csv, timeseries.csv and timepoints.csv: one period with one timeseries
\* of three timepoints, or two periods with a timeseries of two timepoints in the
\* first and a timeseries of one timepoint, of the other duration, in the second.
StorageTimeTables ==
    { [ periods |-> [ p \in { 2020 } |->
                        [ period_start |-> 2020, period_length_years |-> 10 ] ],
        timeseries |-> [ ts \in { "A" } |->
                           [ ts_period |-> 2020, ts_duration_of_tp |-> d ] ],
        timepoints |-> [ t \in { 1, 2, 3 } |-> "A" ] ] : d \in Durations }
    \cup
    { [ periods |-> [ p \in { 2020, 2030 } |->
                        [ period_start |-> p, period_length_years |-> 10 ] ],
        timeseries |-> [ ts \in { "A", "B" } |->
                           IF ts = "A"
                           THEN [ ts_period |-> 2020, ts_duration_of_tp |-> d ]
                           ELSE [ ts_period |-> 2030, ts_duration_of_tp |-> 36 - d ] ],
        timepoints |-> [ t \in { 1, 2, 3 } |-> IF t = 3 THEN "B" ELSE "A" ] ] :
        d \in Durations }

\* generation_projects_info.csv: one storage project, limited to 30 MW; the
\* columns that have a default are given or left out.
StorageProjectTables ==
    { [ g \in { "g1" } |-> base @@ dis @@ rate @@ soc ] :
        base \in { [ gen_load_zone |-> "z1", gen_max_age |-> 20, gen_retirement_year |-> 0,
                     gen_min_build_capacity |-> 0, gen_capacity_limit_mw |-> 30,
                     gen_storage_efficiency |-> << 1, 2 >> ] },
        dis \in { << >>, [ gen_discharge_efficiency |-> << 1, 2 >> ] },
        rate \in { << >>, [ gen_self_discharge_rate |-> << 3, 4 >> ],
                   [ gen_self_discharge_rate |-> << 1, 1 >> ] },
        soc \in { << >>, [ gen_min_soc |-> << 1, 2 >> ] } }

\* gen_build_predetermined.csv: no legacy vintage, or one of 2010 with 24 MWh that
\* is within the limit of the project or above it.
StoragePredeterminedTables ==
    { << >> } \cup
    { [ k \in { << "g1", 2010 >> } |->
          [ gen_predetermined_cap |-> cap,
            gen_predetermined_storage_energy_mwh |-> 24 ] ] : cap \in { 30, 40 } }

\* timeseries.csv of the hourly scenario: one period with one timeseries of three
\* timepoints of one hour or of two.
HourlyTimeTables ==
    { [ periods |-> [ p \in { 2020 } |->
                        [ period_start |-> 2020, period_length_years |-> 10 ] ],
        timeseries |-> [ ts \in { "A" } |->
                           [ ts_period |-> 2020, ts_duration_of_tp |-> d ] ],
        timepoints |-> [ t \in { 1, 2, 3 } |-> "A" ] ] : d \in { 1, 2 } }

\* Whether the tables are those of the hourly scenario.
Hourly == \E ts \in DOMAIN timeseries_csv : timeseries_csv[ts].ts_duration_of_tp < 12

\* The values, in MW and in MWh, that a solve chooses among: a state of charge is
\* a multiple of the energy that a flow of 1 MW leaves in a timepoint, with no
\* decay (12 MWh) or with (2000/231 and 1000/77 MWh).  The hourly scenario has its
\* own flows (5 MW in, 4 MW, 1 MW and 0.25 MW out) and the states of charge they lead to.
ChargeLevels ==
    IF Hourly THEN { << 0, 1 >>, << 5, 1 >> }
    ELSE { << 0, 1 >>, << 2, 1 >>, << 4, 1 >> }
DispatchLevels ==
    IF Hourly THEN { << 0, 1 >>, << 1, 4 >>, << 1, 1 >>, << 4, 1 >> }
    ELSE { << 0, 1 >>, << 1, 1 >> }
StateOfChargeLevels ==
    IF Hourly
    THEN { << 0 - 1, 4 >>, << 0, 1 >>, << 1, 4 >>, << 1, 2 >>, << 1, 1 >>, << 17, 4 >>,
           << 5, 1 >>, << 17, 2 >>, << 11, 1 >> }
    ELSE { RMul(RInt(k), u) : k \in { 0 - 1, 0, 1, 2 },
                              u \in { << 12, 1 >>, << 2000, 231 >>, << 1000, 77 >> } }

\* storage.py:165-217: the parameters of a storage project, with their defaults
gen_storage_efficiency(g) == generation_projects_info[g].gen_storage_efficiency
gen_discharge_efficiency(g) ==
    IF "gen_discharge_efficiency" \in DOMAIN generation_projects_info[g]
    THEN generation_projects_info[g].gen_discharge_efficiency ELSE << 1, 1 >>
gen_self_discharge_rate(g) ==
    IF "gen_self_discharge_rate" \in DOMAIN generation_projects_info[g]
    THEN generation_projects_info[g].gen_self_discharge_rate ELSE << 0, 1 >>
gen_min_soc(g) ==
    IF "gen_min_soc" \in DOMAIN generation_projects_info[g]
    THEN generation_projects_info[g].gen_min_soc ELSE << 0, 1 >>

\* timescales: the timepoints of a timeseries, the timeseries, the period and the
\* duration of a timepoint, and the timepoint before it, the last one of the
\* timeseries coming before the first.
TPS_IN_TS(ts) == { t \in DOMAIN timepoints_csv : timepoints_csv[t] = ts }
tp_ts(t) == timepoints_csv[t]
tp_period(t) == timeseries_csv[tp_ts(t)].ts_period
tp_duration_hrs(t) == timeseries_csv[tp_ts(t)].ts_duration_of_tp
SetMax(S) == CHOOSE x \in S : \A y \in S : y <= x
tp_previous(t) ==
    LET earlier == { u \in TPS_IN_TS(tp_ts(t)) : u < t }
    IN  IF earlier = { } THEN SetMax(TPS_IN_TS(tp_ts(t))) ELSE SetMax(earlier)

\* generators/core/dispatch: the timepoints of the periods a project can run in
TPS_FOR_GEN(g) == { t \in DOMAIN timepoints_csv : tp_period(t) \in PERIODS_FOR_GEN(g) }

\* The storage engine before create_instance constructs its first component.
StorageStart ==
    /\ storage_pc = "STORAGE_GEN_TPS"
    /\ storage_error = "none"
    /\ STORAGE_GEN_TPS = { }
    /\ Track_State_Of_Charge = << >>
    /\ State_Of_Charge_Upper_Limit = << >>
    /\ State_Of_Charge_Lower_Limit = << >>
    /\ ChargeStorage = << >>
    /\ DispatchGen = << >>
    /\ StateOfCharge = << >>
    /\ Storage_Charge_Summation_dict = [ exists |-> FALSE, entries |-> << >> ]
    /\ StorageNetCharge = << >>
    /\ Enforce_Fixed_Energy_Storage_Ratio = << >>
    /\ Battery_Cycle_Limit = << >>

\* A model of one storage project with a new vintage in every period and with or
\* without a legacy vintage.
InitStorage ==
    /\ \E tables \in StorageTimeTables :
          /\ periods_csv = tables.periods
          /\ timeseries_csv = tables.timeseries
          /\ timepoints_csv = tables.timepoints
    /\ generation_projects_info \in StorageProjectTables
    /\ gen_build_predetermined \in StoragePredeterminedTables
    /\ gen_build_costs = { << "g1", p >> : p \in DOMAIN periods_csv }
                             \cup DOMAIN gen_build_predetermined
    /\ BuildStart
    /\ StorageStart

\* generation_projects_info.csv: the storage project with or without a yearly limit
\* of cycles (a tenth of a cycle) and a fixed ratio of energy to power (0.8 h or 1 h).
StorageOptionProjectTables ==
    { [ g \in { "g1" } |-> base @@ cycles @@ ratio ] :
        base \in { [ gen_load_zone |-> "z1", gen_max_age |-> 20, gen_retirement_year |-> 0,
                     gen_min_build_capacity |-> 0, gen_capacity_limit_mw |-> 30,
                     gen_storage_efficiency |-> << 1, 2 >> ] },
        cycles \in { << >>, [ gen_storage_max_cycles_per_year |-> << 1, 10 >> ] },
        ratio \in { << >>, [ gen_storage_energy_to_power_ratio |-> << 4, 5 >> ],
                    [ gen_storage_energy_to_power_ratio |-> << 1, 1 >> ] } }

\* A model of the storage project with the optional constraints of storage.py.
InitStorageOptions ==
    /\ \E tables \in { x \in StorageTimeTables : x.timeseries["A"].ts_duration_of_tp = 12 } :
          /\ periods_csv = tables.periods
          /\ timeseries_csv = tables.timeseries
          /\ timepoints_csv = tables.timepoints
    /\ generation_projects_info \in StorageOptionProjectTables
    /\ gen_build_predetermined \in StoragePredeterminedTables
    /\ gen_build_costs = { << "g1", p >> : p \in DOMAIN periods_csv }
                             \cup DOMAIN gen_build_predetermined
    /\ BuildStart
    /\ StorageStart

\* generation_projects_info.csv of the hourly scenario: a storage project that keeps
\* 0.85 of what it charges, with the discharge efficiency and the self-discharge rate
\* left out or given their defaults, without a limit of capacity or with one below
\* what is built already.
HourlyProjectTables ==
    { [ g \in { "g1" } |-> base @@ dis @@ rate @@ limit ] :
        base \in { [ gen_load_zone |-> "z1", gen_max_age |-> 20, gen_retirement_year |-> 0,
                     gen_min_build_capacity |-> 0,
                     gen_storage_efficiency |-> << 17, 20 >> ] },
        dis \in { << >>, [ gen_discharge_efficiency |-> << 1, 1 >> ] },
        rate \in { << >>, [ gen_self_discharge_rate |-> << 0, 1 >> ] },
        limit \in { << >>, [ gen_capacity_limit_mw |-> 5 ] } }

\* A model of the hourly scenario: the project has the vintage of 2010, of 30 MW and
\* 10 MWh, and cannot be built further.
InitStorageHourly ==
    /\ \E tables \in HourlyTimeTables :
          /\ periods_csv = tables.periods
          /\ timeseries_csv = tables.timeseries
          /\ timepoints_csv = tables.timepoints
    /\ generation_projects_info \in HourlyProjectTables
    /\ gen_build_predetermined =
           [ k \in { << "g1", 2010 >> } |->
               [ gen_predetermined_cap |-> 30, gen_predetermined_storage_energy_mwh |-> 10 ] ]
    /\ gen_build_costs = DOMAIN gen_build_predetermined
    /\ BuildStart
    /\ StorageStart

\* The storage engine of a run that is about another engine alone.
IdleStorage ==
    /\ timeseries_csv = << >>
    /\ timepoints_csv = << >>
    /\ storage_pc = "idle"
    /\ storage_error = "none"
    /\ STORAGE_GEN_TPS = { }
    /\ Track_State_Of_Charge = << >>
    /\ State_Of_Charge_Upper_Limit = << >>
    /\ State_Of_Charge_Lower_Limit = << >>
    /\ ChargeStorage = << >>
    /\ DispatchGen = << >>
    /\ StateOfCharge = << >>
    /\ Storage_Charge_Summation_dict = [ exists |-> FALSE, entries |-> << >> ]
    /\ StorageNetCharge = << >>
    /\ Enforce_Fixed_Energy_Storage_Ratio = << >>
    /\ Battery_Cycle_Limit = << >>

(***************************************************************************)
(* The storage operation engine: construction, in the order of declaration,*)
(* once the components of build.py and the storage build are constructed.  *)
(***************************************************************************)
\* storage.py:302-309
StorageEnergyCapacity_rule(en, g, period) ==
    RInt(SumOver([ bld_yr \in BLD_YRS_FOR_GEN_PERIOD[<< g, period >>] |->
                     en[<< g, bld_yr >>] ],
                 BLD_YRS_FOR_GEN_PERIOD[<< g, period >>]))

\* storage.py:317-322, 324, 366
construct_STORAGE_GEN_TPS ==
    /\ build_pc = "solve"
    /\ storage_pc = "STORAGE_GEN_TPS"
    /\ STORAGE_GEN_TPS' = { k \in STORAGE_GENS \X DOMAIN timepoints_csv :
                               k[2] \in TPS_FOR_GEN(k[1]) }
    /\ storage_pc' = "StorageNetCharge"
    /\ UNCHANGED << storage_inputs, storage_error, Track_State_Of_Charge,
                    State_Of_Charge_Upper_Limit, State_Of_Charge_Lower_Limit,
                    ChargeStorage, DispatchGen, StateOfCharge >>
    /\ UNCHANGED << ledger_vars, build_vars, tx_vars, project_vars, net_charge_vars, storage_option_vars >>

\* storage.py:158 and generation_projects_info.csv: the zone of a project
gen_load_zone(g) == generation_projects_info[g].gen_load_zone

\* A mutant of the cache: a project is entered under every zone.
Storage_Charge_Summation_dict_init_every_zone ==
    LET keys == { << z2, k[2] >> : z2 \in LOAD_ZONES, k \in STORAGE_GEN_TPS }
    IN  [ key \in keys |-> { k[1] : k \in { j \in STORAGE_GEN_TPS : j[2] = key[2] } } ]

\* storage.py:332-336: the entries of the cache when the first call of the rule has
\* filled it: under (zone, timepoint), the projects of STORAGE_GEN_TPS in that zone
Storage_Charge_Summation_dict_init ==
    LET keys == { << gen_load_zone(k[1]), k[2] >> : k \in STORAGE_GEN_TPS }
    IN  [ key \in keys |->
            { k[1] : k \in { j \in STORAGE_GEN_TPS :
                                gen_load_zone(j[1]) = key[1] /\ j[2] = key[2] } } ]

\* storage.py:329-341: the rule of the expression at one index, whichever index is
\* evaluated next.  The first call creates the cache; every call pops its own key,
\* with an empty default, and sums the charging of the projects it finds.
construct_StorageNetCharge ==
    /\ storage_pc = "StorageNetCharge"
    /\ \E z \in LOAD_ZONES, t \in DOMAIN timepoints_csv :
          /\ << z, t >> \notin DOMAIN StorageNetCharge
          /\ LET dict == IF Storage_Charge_Summation_dict.exists
                         THEN Storage_Charge_Summation_dict.entries
                         ELSE Storage_Charge_Summation_dict_init
                 relevant_projects == IF << z, t >> \in DOMAIN dict
                                      THEN dict[<< z, t >>] ELSE { }
             IN  /\ Storage_Charge_Summation_dict' =
                        [ exists |-> TRUE,
                          entries |-> [ key \in DOMAIN dict \ { << z, t >> } |-> dict[key] ] ]
                 /\ StorageNetCharge' =
                        [ c \in DOMAIN StorageNetCharge \cup { << z, t >> } |->
                            IF c = << z, t >>
                            THEN { << g, t >> : g \in relevant_projects }
                            ELSE StorageNetCharge[c] ]
          /\ storage_pc' =
                 IF DOMAIN StorageNetCharge \cup { << z, t >> }
                        = LOAD_ZONES \X (DOMAIN timepoints_csv)
                 THEN "Enforce_Fixed_Energy_Storage_Ratio" ELSE storage_pc
    /\ UNCHANGED << storage_inputs, storage_error, storage_components,
                    storage_option_vars >>
    /\ UNCHANGED << ledger_vars, build_vars, tx_vars, project_vars >>

\* The value of a constructed expression StorageNetCharge[z, t] under a charging.
StorageNetCharge_value(e, charge) == RSumOver(charge, e)

\* A mutant of the rule: the vintages that exist already are left alone.
Enforce_Fixed_Energy_Storage_Ratio_rule_new_only(g, y) ==
    IF "gen_storage_energy_to_power_ratio" \notin DOMAIN generation_projects_info[g]
       \/ << g, y >> \in PREDETERMINED_GEN_BLD_YRS
    THEN [ skip |-> TRUE ]
    ELSE [ skip |-> FALSE, energy |-> << g, y >>,
           ratio |-> generation_projects_info[g].gen_storage_energy_to_power_ratio,
           power |-> << g, y >> ]

\* storage.py:184-189 and 348-353: a project without a value in the column has the
\* default, float("inf"), and the rule returns Constraint.Skip for it; otherwise
\* BuildStorageEnergy[energy] == ratio * BuildGen[power]
Enforce_Fixed_Energy_Storage_Ratio_rule(g, y) ==
    IF "gen_storage_energy_to_power_ratio" \notin DOMAIN generation_projects_info[g]
    THEN [ skip |-> TRUE ]
    ELSE [ skip |-> FALSE, energy |-> << g, y >>,
           ratio |-> generation_projects_info[g].gen_storage_energy_to_power_ratio,
           power |-> << g, y >> ]

\* storage.py:346-354: the constraint holds the indices the rule did not skip
construct_Enforce_Fixed_Energy_Storage_Ratio ==
    /\ build_pc = "solve"
    /\ storage_pc = "Enforce_Fixed_Energy_Storage_Ratio"
    /\ Enforce_Fixed_Energy_Storage_Ratio' =
           [ k \in { j \in STORAGE_GEN_BLD_YRS :
                       ~ Enforce_Fixed_Energy_Storage_Ratio_rule(j[1], j[2]).skip } |->
               Enforce_Fixed_Energy_Storage_Ratio_rule(k[1], k[2]) ]
    /\ storage_pc' = "Track_State_Of_Charge"
    /\ UNCHANGED << storage_inputs, storage_error, storage_components, net_charge_vars,
                    Battery_Cycle_Limit >>
    /\ UNCHANGED << ledger_vars, build_vars, tx_vars, project_vars >>

\* A mutant of the expression: all that is charged is stored.
StorageFlow_rule_lossless_charge(charge, dispatch, g, t) ==
    RSub(charge[<< g, t >>], RDiv(dispatch[<< g, t >>], gen_discharge_efficiency(g)))

\* storage.py:368-372
StorageFlow_rule(charge, dispatch, g, t) ==
    RSub(RMul(charge[<< g, t >>], gen_storage_efficiency(g)),
         RDiv(dispatch[<< g, t >>], gen_discharge_efficiency(g)))

\* A mutant of the rule: the state of charge is carried over from the timepoint
\* whose constraint was constructed last.
Track_State_Of_Charge_rule_last_constructed(g, t) ==
    LET storage_efficiency == RSub(<< 1, 1 >>, gen_self_discharge_rate(g))
        tp_duration_days == Rat(tp_duration_hrs(t), 24)
        decay == RPow(storage_efficiency, tp_duration_days)
    IN  [ soc |-> << g, t >>,
          previous |-> IF Track_State_Of_Charge = << >> THEN << g, tp_previous(t) >>
                       ELSE Track_State_Of_Charge[Len(Track_State_Of_Charge)].soc,
          carry_over |-> decay,
          flow |-> << g, t >>,
          conversion |-> IF storage_efficiency = << 1, 1 >>
                         THEN RInt(tp_duration_hrs(t))
                         ELSE RDiv(RMul(RInt(24), RSub(decay, << 1, 1 >>)),
                                   math_log(storage_efficiency)) ]

\* storage.py:374-398. The constraint is
\*   StateOfCharge[soc] == StateOfCharge[previous] * carry_over
\*                         + StorageFlow[flow] * conversion.
Track_State_Of_Charge_rule(g, t) ==
    LET storage_efficiency == RSub(<< 1, 1 >>, gen_self_discharge_rate(g))
        tp_duration_days == Rat(tp_duration_hrs(t), 24)
        decay == RPow(storage_efficiency, tp_duration_days)
    IN  [ soc |-> << g, t >>,
          previous |-> << g, tp_previous(t) >>,
          carry_over |-> decay,
          flow |-> << g, t >>,
          conversion |-> IF storage_efficiency = << 1, 1 >>
                         THEN RInt(tp_duration_hrs(t))
                         ELSE RDiv(RMul(RInt(24), RSub(decay, << 1, 1 >>)),
                                   math_log(storage_efficiency)) ]

\* storage.py:395: math.log raises ValueError at 0.
Track_State_Of_Charge_raises(g, t) ==
    RSub(<< 1, 1 >>, gen_self_discharge_rate(g)) = << 0, 1 >>

\* storage.py:400-402: the rule is called for one member of STORAGE_GEN_TPS after
\* the other, in the order the set has, which is any.
construct_Track_State_Of_Charge ==
    /\ build_pc = "solve"
    /\ storage_pc = "Track_State_Of_Charge"
    /\ \E k \in STORAGE_GEN_TPS \ { Track_State_Of_Charge[i].soc :
                                     i \in DOMAIN Track_State_Of_Charge } :
          IF Track_State_Of_Charge_raises(k[1], k[2])
          THEN /\ storage_error' = "Track_State_Of_Charge"
               /\ storage_pc' = "error"
               /\ UNCHANGED Track_State_Of_Charge
          ELSE /\ Track_State_Of_Charge' =
                     Append(Track_State_Of_Charge,
                            Track_State_Of_Charge_rule(k[1], k[2]))
               /\ storage_pc' = IF Len(Track_State_Of_Charge') =
                                      Cardinality(STORAGE_GEN_TPS)
                                THEN "State_Of_Charge_Limits"
                                ELSE "Track_State_Of_Charge"
               /\ UNCHANGED storage_error
    /\ UNCHANGED << storage_inputs, STORAGE_GEN_TPS, State_Of_Charge_Upper_Limit,
                    State_Of_Charge_Lower_Limit, ChargeStorage, DispatchGen,
                    StateOfCharge >>
    /\ UNCHANGED << ledger_vars, build_vars, tx_vars, project_vars, net_charge_vars, storage_option_vars >>

\* A mutant of the rule: the capacity of the last period is the limit.
State_Of_Charge_Upper_Limit_rule_last_period(g, t) ==
    [ soc |-> << g, t >>, capacity |-> << g, SetMax(PERIODS) >> ]

\* storage.py:404-405. The constraint is
\*   StateOfCharge[soc] <= StorageEnergyCapacity[capacity].
State_Of_Charge_Upper_Limit_rule(g, t) ==
    [ soc |-> << g, t >>, capacity |-> << g, tp_period(t) >> ]

\* storage.py:413-417. The constraint is
\*   StateOfCharge[soc] >= StorageEnergyCapacity[capacity] * factor.
State_Of_Charge_Lower_Limit_rule(g, t) ==
    [ soc |-> << g, t >>, capacity |-> << g, tp_period(t) >>,
      factor |-> gen_min_soc(g) ]

\* storage.py:407-421
construct_State_Of_Charge_Limits ==
    /\ build_pc = "solve"
    /\ storage_pc = "State_Of_Charge_Limits"
    /\ State_Of_Charge_Upper_Limit' =
          [ k \in STORAGE_GEN_TPS |-> State_Of_Charge_Upper_Limit_rule(k[1], k[2]) ]
    /\ State_Of_Charge_Lower_Limit' =
          [ k \in STORAGE_GEN_TPS |-> State_Of_Charge_Lower_Limit_rule(k[1], k[2]) ]
    /\ storage_pc' = "Battery_Cycle_Limit"
    /\ UNCHANGED << storage_inputs, storage_error, STORAGE_GEN_TPS,
                    Track_State_Of_Charge, ChargeStorage, DispatchGen, StateOfCharge >>
    /\ UNCHANGED << ledger_vars, build_vars, tx_vars, project_vars, net_charge_vars, storage_option_vars >>

\* storage.py:159-164
STORAGE_GEN_PERIODS == { k \in STORAGE_GENS \X PERIODS : k[2] \in PERIODS_FOR_GEN(k[1]) }

\* timescales: the timepoints of a period
TPS_IN_PERIOD(p) == { t \in DOMAIN timepoints_csv : tp_period(t) = p }

\* A mutant of the rule: the dispatch is summed in MW, not in MWh.
Battery_Cycle_Limit_rule_unweighted(g, p) ==
    IF "gen_storage_max_cycles_per_year" \notin DOMAIN generation_projects_info[g]
    THEN [ skip |-> TRUE ]
    ELSE [ skip |-> FALSE,
           dispatch |-> [ k \in { g } \X TPS_IN_PERIOD(p) |-> 1 ],
           cycles |-> generation_projects_info[g].gen_storage_max_cycles_per_year,
           capacity |-> << g, p >>,
           years |-> period_length_years(p) ]

\* storage.py:190-195 and 424-439: a project without a value in the column has the
\* default, float("inf"), and the rule returns Constraint.Skip for it; otherwise
\* sum(DispatchGen[k] * dispatch[k]) <= cycles * StorageEnergyCapacity[capacity] * years
Battery_Cycle_Limit_rule(g, p) ==
    IF "gen_storage_max_cycles_per_year" \notin DOMAIN generation_projects_info[g]
    THEN [ skip |-> TRUE ]
    ELSE [ skip |-> FALSE,
           dispatch |-> [ k \in { g } \X TPS_IN_PERIOD(p) |-> tp_duration_hrs(k[2]) ],
           cycles |-> generation_projects_info[g].gen_storage_max_cycles_per_year,
           capacity |-> << g, p >>,
           years |-> period_length_years(p) ]

\* storage.py:424-439: the constraint holds the indices the rule did not skip
construct_Battery_Cycle_Limit ==
    /\ build_pc = "solve"
    /\ storage_pc = "Battery_Cycle_Limit"
    /\ Battery_Cycle_Limit' =
           [ k \in { j \in STORAGE_GEN_PERIODS : ~ Battery_Cycle_Limit_rule(j[1], j[2]).skip } |->
               Battery_Cycle_Limit_rule(k[1], k[2]) ]
    /\ storage_pc' = "solve"
    /\ UNCHANGED << storage_inputs, storage_error, storage_components, net_charge_vars,
                    Enforce_Fixed_Energy_Storage_Ratio >>
    /\ UNCHANGED << ledger_vars, build_vars, tx_vars, project_vars >>

(***************************************************************************)
(* The storage operation engine: the solve.                                *)
(***************************************************************************)
\* storage.py:400-402: the constructed constraint c holds when ChargeStorage and
\* DispatchGen have the values charge and dispatch at the index of its flow.
Track_State_Of_Charge_holds(c, charge, dispatch, soc) ==
    soc[c.soc] =
       RAdd(RMul(soc[c.previous], c.carry_over),
            RMul(StorageFlow_rule([ k \in { c.flow } |-> charge ],
                                  [ k \in { c.flow } |-> dispatch ],
                                  c.flow[1], c.flow[2]),
                 c.conversion))

\* storage.py:407-421: every constructed constraint holds.
State_Of_Charge_Limits_hold(en, soc) ==
    /\ \A k \in DOMAIN State_Of_Charge_Upper_Limit :
          LET c == State_Of_Charge_Upper_Limit[k]
          IN  RLe(soc[c.soc],
                  StorageEnergyCapacity_rule(en, c.capacity[1], c.capacity[2]))
    /\ \A k \in DOMAIN State_Of_Charge_Lower_Limit :
          LET c == State_Of_Charge_Lower_Limit[k]
          IN  RLe(RMul(StorageEnergyCapacity_rule(en, c.capacity[1], c.capacity[2]),
                       c.factor),
                  soc[c.soc])

\* storage.py:346-354: the constructed constraints hold under the two builds
Enforce_Fixed_Energy_Storage_Ratio_holds(en, bg) ==
    \A k \in DOMAIN Enforce_Fixed_Energy_Storage_Ratio :
        LET c == Enforce_Fixed_Energy_Storage_Ratio[k]
        IN  RInt(en[c.energy]) = RMul(c.ratio, RInt(bg[c.power]))

\* storage.py:424-439: the constructed constraints hold under a dispatch and a build
Battery_Cycle_Limit_holds(dispatch, en) ==
    \A k \in DOMAIN Battery_Cycle_Limit :
        LET c == Battery_Cycle_Limit[k]
        IN  RLe(RSumOver([ i \in DOMAIN c.dispatch |->
                             RMul(dispatch[i], RInt(c.dispatch[i])) ], DOMAIN c.dispatch),
                RMul(RMul(c.cycles,
                          StorageEnergyCapacity_rule(en, c.capacity[1], c.capacity[2])),
                     RInt(c.years)))

\* storage.py:366: within=NonNegativeReals
StateOfCharge_candidates ==
    [STORAGE_GEN_TPS -> { v \in StateOfChargeLevels : RLe(<< 0, 1 >>, v) }]

\* storage.py:324 and the dispatch variable, both within NonNegativeReals: the
\* pairs << ChargeStorage[g, t], DispatchGen[g, t] >> for every (g, t) with which
\* every Track_State_Of_Charge constraint holds, given the states of charge. A
\* constraint bears on the charge and the dispatch of one index only.
Flow_candidates(soc) ==
    DependentFunctions(
        [ k \in STORAGE_GEN_TPS |->
            { x \in ChargeLevels \X DispatchLevels :
                \A i \in DOMAIN Track_State_Of_Charge :
                    Track_State_Of_Charge[i].flow = k
                        => Track_State_Of_Charge_holds(Track_State_Of_Charge[i],
                                                       x[1], x[2], soc) } ])

\* The assignments to the storage variables that satisfy the storage constraints.
Storage_solutions ==
    { sol \in { [ soc |-> soc, en |-> en ] :
                  soc \in StateOfCharge_candidates,
                  en \in BuildStorageEnergy_candidates } :
        State_Of_Charge_Limits_hold(sol.en, sol.soc) }

\* The external solver returns any assignment that satisfies the bounds and the
\* constraints of build.py and of storage.py ...
solve_storage ==
    /\ build_pc = "solve"
    /\ storage_pc = "solve"
    /\ \E sol \in Storage_solutions :
          /\ \E flow \in Flow_candidates(sol.soc) :
                /\ Battery_Cycle_Limit_holds([ k \in STORAGE_GEN_TPS |-> flow[k][2] ], sol.en)
                /\ ChargeStorage' = [ k \in STORAGE_GEN_TPS |-> flow[k][1] ]
                /\ DispatchGen' = [ k \in STORAGE_GEN_TPS |-> flow[k][2] ]
          /\ \E bg \in BuildGen_candidates, gate \in BuildMinGenCap_candidates :
                /\ BuildFeasible(bg, gate)
                /\ Enforce_Fixed_Energy_Storage_Ratio_holds(sol.en, bg)
                /\ BuildGen' = bg
                /\ BuildMinGenCap' = gate
          /\ BuildStorageEnergy' = sol.en
          /\ StateOfCharge' = sol.soc
    /\ build_pc' = "solved"
    /\ storage_pc' = "solved"
    /\ UNCHANGED << build_inputs, build_error, built, PREDETERMINED_BLD_YRS,
                    GEN_BLD_YRS, NEW_GEN_BLD_YRS, PERIODS_FOR_GEN_BLD_YR,
                    BLD_YRS_FOR_GEN_PERIOD, GEN_PERIODS, BuildGen_bounds, GenCapacity,
                    Max_Build_Potential, NEW_GEN_WITH_MIN_BUILD_YEARS,
                    BuildStorageEnergy_bounds >>
    /\ UNCHANGED << storage_inputs, storage_error, STORAGE_GEN_TPS,
                    Track_State_Of_Charge, State_Of_Charge_Upper_Limit,
                    State_Of_Charge_Lower_Limit >>
    /\ UNCHANGED << ledger_vars, tx_vars, project_vars, net_charge_vars, storage_option_vars >>

\* ... or reports that there is none.
solve_storage_infeasible ==
    /\ build_pc = "solve"
    /\ storage_pc = "solve"
    /\ ~ \E sol \in Storage_solutions :
            /\ \E flow \in Flow_candidates(sol.soc) :
                   Battery_Cycle_Limit_holds([ k \in STORAGE_GEN_TPS |-> flow[k][2] ], sol.en)
            /\ \E bg \in BuildGen_candidates, gate \in BuildMinGenCap_candidates :
                   /\ BuildFeasible(bg, gate)
                   /\ Enforce_Fixed_Energy_Storage_Ratio_holds(sol.en, bg)
    /\ build_pc' = "infeasible"
    /\ storage_pc' = "infeasible"
    /\ UNCHANGED << build_inputs, build_error, built, build_components >>
    /\ UNCHANGED << storage_inputs, storage_error, storage_components >>
    /\ UNCHANGED << ledger_vars, tx_vars, project_vars, net_charge_vars, storage_option_vars >>

NextStorage ==
    \/ construct_build_year_sets
    \/ no_predetermined_bld_yr_vs_period_conflict
    \/ construct_operability_sets
    \/ construct_BuildGen
    \/ construct_capacity
    \/ construct_min_build
    \/ construct_storage_build
    \/ construct_STORAGE_GEN_TPS
    \/ construct_StorageNetCharge
    \/ construct_Enforce_Fixed_Energy_Storage_Ratio
    \/ construct_Track_State_Of_Charge
    \/ construct_State_Of_Charge_Limits
    \/ construct_Battery_Cycle_Limit
    \/ solve_storage
    \/ solve_storage_infeasible

(***************************************************************************)
(* Claims about the storage operation engine.                              *)
(***************************************************************************)
\* decay = (1 - self_discharge_rate) ^ (duration_hrs / 24)
DecayAsClaimed(g, t) ==
    RPow(RSub(RInt(1), gen_self_discharge_rate(g)), Rat(tp_duration_hrs(t), 24))

\* energy_conversion = duration_hrs when the rate is 0 and
\* 24 * (decay - 1) / ln(1 - rate) otherwise
ConversionAsClaimed(g, t) ==
    IF gen_self_discharge_rate(g) = RInt(0)
    THEN RInt(tp_duration_hrs(t))
    ELSE RDiv(RMul(RInt(24), RSub(DecayAsClaimed(g, t), RInt(1))),
              math_log(RSub(RInt(1), gen_self_discharge_rate(g))))

\* StorageFlow = ChargeStorage * gen_storage_efficiency
\*               - DispatchGen / gen_discharge_efficiency, at the solved values
FlowAsClaimed(g, t) ==
    RSub(RMul(ChargeStorage[<< g, t >>], gen_storage_efficiency(g)),
         RDiv(DispatchGen[<< g, t >>], gen_discharge_efficiency(g)))

\* C3: every Track_State_Of_Charge constraint, whenever and in whatever order it
\* is constructed, ties StateOfCharge[g, t] to StateOfCharge[g, tp_previous[t]]
\* with the decay and to StorageFlow[g, t] with the energy conversion of the
\* claim; once all are constructed there is exactly one for every member of
\* STORAGE_GEN_TPS; and every solved model has StateOfCharge[g, t] =
\* StateOfCharge[g, tp_previous[t]] * decay + StorageFlow[g, t] * energy_conversion
\* for every member of STORAGE_GEN_TPS.
C3_TrackStateOfCharge ==
    /\ \A i \in DOMAIN Track_State_Of_Charge :
          LET c == Track_State_Of_Charge[i]
          IN  /\ c.soc \in STORAGE_GEN_TPS
              /\ c.previous = << c.soc[1], tp_previous(c.soc[2]) >>
              /\ c.flow = c.soc
              /\ c.carry_over = DecayAsClaimed(c.soc[1], c.soc[2])
              /\ c.conversion = ConversionAsClaimed(c.soc[1], c.soc[2])
    /\ storage_pc \in { "State_Of_Charge_Limits", "solve", "solved", "infeasible" } =>
          /\ Len(Track_State_Of_Charge) = Cardinality(STORAGE_GEN_TPS)
          /\ { Track_State_Of_Charge[i].soc : i \in DOMAIN Track_State_Of_Charge }
                = STORAGE_GEN_TPS
    /\ storage_pc = "solved" =>
          \A k \in STORAGE_GEN_TPS :
              StateOfCharge[k] =
                 RAdd(RMul(StateOfCharge[<< k[1], tp_previous(k[2]) >>],
                           DecayAsClaimed(k[1], k[2])),
                      RMul(FlowAsClaimed(k[1], k[2]), ConversionAsClaimed(k[1], k[2])))

\* C3 witness: a solved model of a project that loses 3/4 of its charge a day and
\* discharges at an efficiency of 1/2, with three timepoints of 12 hours whose
\* constraints were constructed in the order 3, 1, 2: the project is charged to
\* 4000/231 MWh at timepoint 1, emptied at timepoint 2 and idle at timepoint 3.
C3_Witness ==
    /\ storage_pc = "solved"
    /\ gen_self_discharge_rate("g1") = << 3, 4 >>
    /\ gen_discharge_efficiency("g1") = << 1, 2 >>
    /\ TPS_IN_TS("A") = { 1, 2, 3 }
    /\ tp_duration_hrs(1) = 12
    /\ Track_State_Of_Charge[1].soc = << "g1", 3 >>
    /\ Track_State_Of_Charge[2].soc = << "g1", 1 >>
    /\ ChargeStorage[<< "g1", 1 >>] = << 4, 1 >>
    /\ StateOfCharge[<< "g1", 1 >>] = << 4000, 231 >>
    /\ DispatchGen[<< "g1", 2 >>] = << 1, 1 >>
    /\ ChargeStorage[<< "g1", 2 >>] = << 2, 1 >>
    /\ StateOfCharge[<< "g1", 2 >>] = << 0, 1 >>
    /\ StateOfCharge[<< "g1", 3 >>] = << 0, 1 >>

\* StorageEnergyCapacity[g, p] at the solved values: what the vintages of g that
\* run in p have built.
CapacityAsClaimed(g, p) ==
    RInt(SumOver(BuildStorageEnergy,
                 { k \in DOMAIN BuildStorageEnergy :
                     k[1] = g /\ p \in PERIODS_FOR_GEN_BLD_YR[k] }))

\* C4: once the limits are constructed there is an upper and a lower limit for
\* every member of STORAGE_GEN_TPS, whatever gen_min_soc is; and every solved
\* model has 0 <= StateOfCharge[g, t] <= StorageEnergyCapacity[g, period of t]
\* and StateOfCharge[g, t] >= gen_min_soc[g] * StorageEnergyCapacity[g, period
\* of t] for every member of STORAGE_GEN_TPS.
C4_StateOfChargeLimits ==
    /\ storage_pc \in { "solve", "solved", "infeasible" } =>
          /\ DOMAIN State_Of_Charge_Upper_Limit = STORAGE_GEN_TPS
          /\ DOMAIN State_Of_Charge_Lower_Limit = STORAGE_GEN_TPS
    /\ storage_pc = "solved" =>
          \A k \in STORAGE_GEN_TPS :
              /\ RLe(RInt(0), StateOfCharge[k])
              /\ RLe(StateOfCharge[k], CapacityAsClaimed(k[1], tp_period(k[2])))
              /\ RLe(RMul(gen_min_soc(k[1]), CapacityAsClaimed(k[1], tp_period(k[2]))),
                     StateOfCharge[k])

\* C4 witness: a solved model with two periods and a gen_min_soc of 1/2, in which
\* the 24 MWh built in 2020 are full at timepoint 1 and half full at timepoint 2,
\* and the 48 MWh of 2030 are half full at timepoint 3.
C4_Witness ==
    /\ storage_pc = "solved"
    /\ gen_min_soc("g1") = << 1, 2 >>
    /\ PERIODS = { 2020, 2030 }
    /\ gen_build_predetermined = << >>
    /\ BuildStorageEnergy[<< "g1", 2020 >>] = 24
    /\ BuildStorageEnergy[<< "g1", 2030 >>] = 24
    /\ tp_period(3) = 2030
    /\ StateOfCharge[<< "g1", 1 >>] = << 24, 1 >>
    /\ StateOfCharge[<< "g1", 2 >>] = << 12, 1 >>
    /\ StateOfCharge[<< "g1", 3 >>] = << 24, 1 >>

\* C18: for a project without self-discharge every constraint carries the previous
\* state of charge over whole and converts the flow with the hours of the timepoint,
\* whatever they are, so that StateOfCharge[t] = StateOfCharge[previous t] +
\* (charge * charging efficiency - discharge / discharge efficiency) * hours; and the
\* project of the scenario (efficiency 0.85, discharge efficiency 1, 10 MWh, hours of
\* 1), charged with 5 MW from empty and then discharged with 4 MW, holds 4.25 MWh
\* and then 0.25 MWh, within 0 and 10 MWh.
C18_NoDecayStateOfCharge ==
    \A g \in DOMAIN generation_projects_info :
        ("gen_storage_efficiency" \in DOMAIN generation_projects_info[g]
            /\ gen_self_discharge_rate(g) = RInt(0)) =>
        /\ \A i \in DOMAIN Track_State_Of_Charge :
               Track_State_Of_Charge[i].soc[1] = g =>
                   /\ Track_State_Of_Charge[i].carry_over = RInt(1)
                   /\ Track_State_Of_Charge[i].conversion =
                          RInt(timeseries_csv[timepoints_csv[Track_State_Of_Charge[i].soc[2]]]
                                  .ts_duration_of_tp)
        /\ storage_pc = "solved" =>
               /\ \A k \in STORAGE_GEN_TPS :
                      k[1] = g =>
                          StateOfCharge[k] =
                              RAdd(StateOfCharge[<< g, tp_previous(k[2]) >>],
                                   RMul(FlowAsClaimed(g, k[2]),
                                        RInt(timeseries_csv[timepoints_csv[k[2]]].ts_duration_of_tp)))
               /\ (/\ tp_duration_hrs(1) = 1
                   /\ gen_storage_efficiency(g) = << 17, 20 >>
                   /\ gen_discharge_efficiency(g) = RInt(1)
                   /\ CapacityAsClaimed(g, 2020) = RInt(10)
                   /\ StateOfCharge[<< g, tp_previous(1) >>] = RInt(0)
                   /\ ChargeStorage[<< g, 1 >>] = RInt(5) /\ DispatchGen[<< g, 1 >>] = RInt(0)
                   /\ ChargeStorage[<< g, 2 >>] = RInt(0) /\ DispatchGen[<< g, 2 >>] = RInt(4))
                  => /\ StateOfCharge[<< g, 1 >>] = << 17, 4 >>
                     /\ StateOfCharge[<< g, 2 >>] = << 1, 4 >>
                     /\ \A k \in STORAGE_GEN_TPS :
                            RLe(RInt(0), StateOfCharge[k]) /\ RLe(StateOfCharge[k], RInt(10))

\* The scenario: the project is empty before the first hour, takes 5 MW in the
\* first, gives 4 MW in the second and its last 0.25 MW in the third.
C18_Witness ==
    /\ storage_pc = "solved"
    /\ tp_duration_hrs(1) = 1
    /\ "gen_self_discharge_rate" \notin DOMAIN generation_projects_info["g1"]
    /\ gen_storage_efficiency("g1") = << 17, 20 >>
    /\ CapacityAsClaimed("g1", 2020) = RInt(10)
    /\ ChargeStorage[<< "g1", 1 >>] = RInt(5) /\ DispatchGen[<< "g1", 1 >>] = RInt(0)
    /\ ChargeStorage[<< "g1", 2 >>] = RInt(0) /\ DispatchGen[<< "g1", 2 >>] = RInt(4)
    /\ StateOfCharge[<< "g1", 3 >>] = RInt(0)
    /\ StateOfCharge[<< "g1", 1 >>] = << 17, 4 >>
    /\ StateOfCharge[<< "g1", 2 >>] = << 1, 4 >>

(***************************************************************************)
(* Claims about the optional constraints of the storage engine.            *)
(***************************************************************************)
\* The energy, in MWh, that project g dispatches in period p at the solved values.
DischargedEnergy(g, p) ==
    LET tps == { t \in DOMAIN timepoints_csv : timeseries_csv[timepoints_csv[t]].ts_period = p }
    IN  RSumOver([ t \in tps |->
                     RMul(DispatchGen[<< g, t >>],
                          RInt(timeseries_csv[timepoints_csv[t]].ts_duration_of_tp)) ], tps)

\* The discharge the claim allows project g in period p.
CycleLimitAsClaimed(g, p) ==
    RMul(RMul(generation_projects_info[g].gen_storage_max_cycles_per_year,
              CapacityAsClaimed(g, p)),
         RInt(periods_csv[p].period_length_years))

\* C16: a storage project with a finite gen_storage_max_cycles_per_year has one cycle
\* constraint for each of its periods, and what it dispatches over the timepoints of
\* a period, in MWh, is at most the cycles a year times its energy capacity in the
\* period times the years of the period; a project without a value has no cycle
\* constraint at all.
C16_BatteryCycleLimit ==
    /\ storage_pc \in { "solve", "solved", "infeasible" } =>
           DOMAIN Battery_Cycle_Limit =
               { k \in STORAGE_GEN_PERIODS :
                   "gen_storage_max_cycles_per_year" \in DOMAIN generation_projects_info[k[1]] }
    /\ storage_pc = "solved" =>
           \A k \in STORAGE_GEN_PERIODS :
               "gen_storage_max_cycles_per_year" \in DOMAIN generation_projects_info[k[1]] =>
                   RLe(DischargedEnergy(k[1], k[2]), CycleLimitAsClaimed(k[1], k[2]))

\* A limited project that uses its cycles up: 24 MWh of capacity for ten years at a
\* tenth of a cycle a year allow 24 MWh, and 24 MWh are dispatched.
C16_Witness ==
    /\ storage_pc = "solved"
    /\ "gen_storage_max_cycles_per_year" \in DOMAIN generation_projects_info["g1"]
    /\ << "g1", 2020 >> \in STORAGE_GEN_PERIODS
    /\ CycleLimitAsClaimed("g1", 2020) = << 24, 1 >>
    /\ DischargedEnergy("g1", 2020) = << 24, 1 >>

\* C17: a storage project with a finite gen_storage_energy_to_power_ratio has, for
\* every vintage, the ones that exist already included, an energy build that is
\* the ratio times the power build; a project without a value has no such
\* constraint.
C17_FixedEnergyStorageRatio ==
    /\ storage_pc \in { "Track_State_Of_Charge", "State_Of_Charge_Limits",
                         "Battery_Cycle_Limit", "solve", "solved", "infeasible" } =>
           DOMAIN Enforce_Fixed_Energy_Storage_Ratio =
               { k \in STORAGE_GEN_BLD_YRS :
                   "gen_storage_energy_to_power_ratio" \in DOMAIN generation_projects_info[k[1]] }
    /\ storage_pc = "solved" =>
           \A k \in STORAGE_GEN_BLD_YRS :
               "gen_storage_energy_to_power_ratio" \in DOMAIN generation_projects_info[k[1]] =>
                   BuildStorageEnergy[k]
                         * generation_projects_info[k[1]].gen_storage_energy_to_power_ratio[2]
                       = generation_projects_info[k[1]].gen_storage_energy_to_power_ratio[1]
                         * BuildGen[k]

\* A ratio of 0.8 h: the vintage of 2010 has 30 MW and 24 MWh, and a new vintage is
\* sized with it as well.
C17_Witness ==
    /\ storage_pc = "solved"
    /\ "gen_storage_energy_to_power_ratio" \in DOMAIN generation_projects_info["g1"]
    /\ generation_projects_info["g1"].gen_storage_energy_to_power_ratio = << 4, 5 >>
    /\ << "g1", 2010 >> \in DOMAIN BuildGen
    /\ BuildGen[<< "g1", 2010 >>] = 30
    /\ BuildStorageEnergy[<< "g1", 2010 >>] = 24
    /\ << "g1", 2020 >> \in STORAGE_GEN_BLD_YRS
    /\ BuildStorageEnergy[<< "g1", 2020 >>] = 0

\* The energy that flows into the store of g over the timepoints of a timeseries,
\* at the solved values: sum of StorageFlow[g, t] * tp_duration_hrs[t].
TimeseriesNetFlow(g, ts) ==
    RSumOver([ t \in TPS_IN_TS(ts) |->
                 RMul(StorageFlow_rule(ChargeStorage, DispatchGen, g, t),
                      RInt(tp_duration_hrs(t))) ],
             TPS_IN_TS(ts))

\* C29: every constructed constraint takes the state of charge it carries over from
\* a timepoint of the same timeseries; and in every solved model the flows of a
\* project without self-discharge, weighted with the durations, sum to zero over
\* the timepoints of each timeseries the project runs in.
C29_TimeseriesEnergyBalance ==
    /\ \A i \in DOMAIN Track_State_Of_Charge :
          LET c == Track_State_Of_Charge[i]
          IN  /\ c.previous[1] = c.soc[1]
              /\ tp_ts(c.previous[2]) = tp_ts(c.soc[2])
    /\ storage_pc = "solved" =>
          \A g \in STORAGE_GENS, ts \in DOMAIN timeseries_csv :
              /\ gen_self_discharge_rate(g) = << 0, 1 >>
              /\ { g } \X TPS_IN_TS(ts) \subseteq STORAGE_GEN_TPS
              => TimeseriesNetFlow(g, ts) = << 0, 1 >>

\* A project without self-discharge is charged at one timepoint of a timeseries
\* and releases the energy at another, next to a second timeseries.
C29_Witness ==
    /\ storage_pc = "solved"
    /\ gen_self_discharge_rate("g1") = << 0, 1 >>
    /\ DOMAIN timeseries_csv = { "A", "B" }
    /\ { "g1" } \X TPS_IN_TS("A") \subseteq STORAGE_GEN_TPS
    /\ \E t, u \in TPS_IN_TS("A") :
          /\ ChargeStorage[<< "g1", t >>] # << 0, 1 >>
          /\ DispatchGen[<< "g1", u >>] # << 0, 1 >>
          /\ StateOfCharge[<< "g1", t >>] # StateOfCharge[<< "g1", u >>]
    /\ TimeseriesNetFlow("g1", "A") = << 0, 1 >>

\* C30 as it is stated: the construction of Track_State_Of_Charge never raises,
\* and once it is over there is a constraint with a finite carry-over and a finite
\* conversion for every member of STORAGE_GEN_TPS, whatever the self-discharge
\* rate of the project within [0, 1].
C30_AsStated ==
    /\ \A g \in STORAGE_GENS :
          /\ RLe(<< 0, 1 >>, gen_self_discharge_rate(g))
          /\ RLe(gen_self_discharge_rate(g), << 1, 1 >>)
    /\ storage_error # "Track_State_Of_Charge"
    /\ storage_pc \in { "State_Of_Charge_Limits", "Battery_Cycle_Limit", "solve", "solved",
                       "infeasible" } =>
          { Track_State_Of_Charge[i].soc : i \in DOMAIN Track_State_Of_Charge }
              = STORAGE_GEN_TPS

(***************************************************************************)
(* The zonal charging of storage: the ledger passes of a model of load      *)
(* zones and storage, then the construction up to StorageNetCharge.         *)
(***************************************************************************)
\* generation_projects_info.csv: two storage projects, in one zone or in two, and a
\* project in the first zone that is not storage.
NetChargeProjectTables ==
    { [ g \in { "g1", "g2", "g3" } |->
          [ gen_load_zone |-> IF g = "g2" THEN z ELSE "z1",
            gen_max_age |-> 20, gen_retirement_year |-> 0, gen_min_build_capacity |-> 0 ]
          @@ (IF g = "g3" THEN << >> ELSE [ gen_storage_efficiency |-> << 1, 2 >> ]) ] :
        z \in LOAD_ZONES }

\* gen_build_costs.csv: every project can be built in every period, or the second
\* storage project in the last period alone.
NetChargeCostTables ==
    { { k \in { "g1", "g2", "g3" } \X DOMAIN periods_csv :
          k[1] = "g2" /\ late => \A p \in DOMAIN periods_csv : p <= k[2] } :
        late \in BOOLEAN }

\* The driver: create_instance starts the construction of the components once every
\* module has declared its own.
create_instance_components ==
    /\ phase = "create_instance"
    /\ build_pc = "idle"
    /\ build_pc' = "build_year_sets"
    /\ UNCHANGED << build_inputs, build_error, built, build_components >>
    /\ UNCHANGED << ledger_vars, storage_vars, tx_vars, project_vars >>

InitNetCharge ==
    /\ module_list \in { s \in ModuleLists : Range(s) = { "load_zones", "storage" } }
    /\ phase = "define_dynamic_lists"
    /\ next_mod = 1
    /\ attrs = { }
    /\ Zone_Power_Injections = << >>
    /\ Zone_Power_Withdrawals = << >>
    /\ Distributed_Power_Withdrawals = << >>
    /\ declared = { }
    /\ zone_demand_mw = << >>
    /\ Zone_Energy_Balance = << >>
    /\ value = << >>
    /\ status = "building"
    /\ \E tables \in StorageTimeTables :
          /\ periods_csv = tables.periods
          /\ timeseries_csv = tables.timeseries
          /\ timepoints_csv = tables.timepoints
    /\ generation_projects_info \in NetChargeProjectTables
    /\ gen_build_predetermined = << >>
    /\ gen_build_costs \in NetChargeCostTables
    /\ build_pc = "idle"
    /\ build_error = "none"
    /\ built = { }
    /\ PREDETERMINED_BLD_YRS = { }
    /\ GEN_BLD_YRS = { }
    /\ NEW_GEN_BLD_YRS = { }
    /\ PERIODS_FOR_GEN_BLD_YR = << >>
    /\ BLD_YRS_FOR_GEN_PERIOD = << >>
    /\ GEN_PERIODS = { }
    /\ BuildGen_bounds = << >>
    /\ BuildGen = << >>
    /\ GenCapacity = << >>
    /\ Max_Build_Potential = { }
    /\ NEW_GEN_WITH_MIN_BUILD_YEARS = { }
    /\ BuildMinGenCap = << >>
    /\ BuildStorageEnergy_bounds = << >>
    /\ BuildStorageEnergy = << >>
    /\ StorageStart

NextNetCharge ==
    \/ load_zones_define_dynamic_lists
    \/ skip_module
    \/ load_zones_define_components
    \/ storage_define_components
    \/ load_zones_define_dynamic_components
    \/ create_instance_components
    \/ construct_build_year_sets
    \/ no_predetermined_bld_yr_vs_period_conflict
    \/ construct_operability_sets
    \/ construct_BuildGen
    \/ construct_capacity
    \/ construct_min_build
    \/ construct_storage_build
    \/ construct_STORAGE_GEN_TPS
    \/ construct_StorageNetCharge

(***************************************************************************)
(* Claims about the zonal charging of storage.                             *)
(***************************************************************************)
\* The terms the claim states for a zone and a timepoint, from the tables and the
\* set of the active (project, timepoint) pairs.
NetChargeTermsAsClaimed(z, t) ==
    { << g, t >> : g \in { h \in DOMAIN generation_projects_info :
                              /\ "gen_storage_efficiency" \in DOMAIN generation_projects_info[h]
                              /\ generation_projects_info[h].gen_load_zone = z
                              /\ << h, t >> \in STORAGE_GEN_TPS } }

\* The names the storage engine declares on the model, and the dispatch it shares.
StorageNames == { "ChargeStorage", "StorageNetCharge", "DispatchGen", "StateOfCharge" }

\* C15: the zonal charging of a zone at a timepoint sums the charging of the storage
\* projects of that zone that are active at that timepoint, and is 0 when there is
\* none, in whatever order the entries are evaluated; once every entry is evaluated,
\* each active (project, timepoint) is a term of one entry and the value of an entry
\* is the sum of its terms under every charging.  The term is a withdrawal, once,
\* and the engine registers nothing else.
C15_StorageNetCharge ==
    /\ \A c \in DOMAIN StorageNetCharge :
           StorageNetCharge[c] = NetChargeTermsAsClaimed(c[1], c[2])
    /\ storage_pc = "Enforce_Fixed_Energy_Storage_Ratio" =>
           /\ DOMAIN StorageNetCharge = LOAD_ZONES \X (DOMAIN timepoints_csv)
           /\ \A k \in STORAGE_GEN_TPS :
                  { c \in DOMAIN StorageNetCharge : k \in StorageNetCharge[c] }
                      = { << generation_projects_info[k[1]].gen_load_zone, k[2] >> }
           /\ \A charge \in [ STORAGE_GEN_TPS -> { << 0, 1 >>, << 2, 1 >> } ] :
                  \A c \in DOMAIN StorageNetCharge :
                      StorageNetCharge_value(StorageNetCharge[c], charge)
                          = RInt(2 * Cardinality({ k \in NetChargeTermsAsClaimed(c[1], c[2]) :
                                                     charge[k] = << 2, 1 >> }))
    /\ Occurrences("StorageNetCharge", Zone_Power_Withdrawals)
           = (IF "StorageNetCharge" \in declared THEN 1 ELSE 0)
    /\ Range(Zone_Power_Withdrawals) \cap StorageNames \subseteq { "StorageNetCharge" }
    /\ Range(Zone_Power_Injections) \cap StorageNames = { }
    /\ Range(Distributed_Power_Withdrawals) \cap StorageNames = { }

\* Two storage projects share the first zone, the second of them is active in the
\* last period alone, a third project of the zone is not storage, and the second
\* zone has no storage: its entries are empty sums.
C15_Witness ==
    /\ storage_pc = "Enforce_Fixed_Energy_Storage_Ratio"
    /\ DOMAIN periods_csv = { 2020, 2030 }
    /\ StorageNetCharge[<< "z1", 1 >>] = { << "g1", 1 >> }
    /\ StorageNetCharge[<< "z1", 3 >>] = { << "g1", 3 >>, << "g2", 3 >> }
    /\ StorageNetCharge[<< "z2", 3 >>] = { }
    /\ Zone_Power_Withdrawals = << "zone_demand_mw", "StorageNetCharge" >>

(***************************************************************************)
(* The transmission dispatch engine.                                       *)
(***************************************************************************)
\* The zones of the network of SpecTx: the middle zone has two neighbours.
TX_LOAD_ZONES == LOAD_ZONES \cup { "z3" }

\* The lines of the network: one line, or two lines that meet in z2.  The second
\* line is entered from z3 to z2, so that both orders of the end points occur.
TransmissionLineTables ==
    { [ tx \in lines |->
          IF tx = "z1-z2"
          THEN [ trans_lz1 |-> "z1", trans_lz2 |-> "z2", trans_efficiency |-> e ]
          ELSE [ trans_lz1 |-> "z3", trans_lz2 |-> "z2", trans_efficiency |-> << 9, 10 >> ] ] :
        lines \in { { "z1-z2" }, { "z1-z2", "z2-z3" } },
        e \in { << 19, 20 >>, << 1, 1 >> } }

\* The capacity, in MW, that transport.build makes available on a line in a period.
TxCapacityLevels(tx, p) ==
    IF tx = "z1-z2" THEN (IF p = 2020 THEN 1 ELSE 2)
    ELSE (IF p = 2020 THEN 0 ELSE 1)

\* The levels, in MW, that a solve gives the dispatch along a corridor.
DispatchTxLevels == { 0, 1, 2, 3 }

trans_efficiency(tx) == transmission_lines[tx].trans_efficiency

\* transport.build: both directions of every line
DIRECTIONAL_TX ==
    UNION { { << transmission_lines[tx].trans_lz1, transmission_lines[tx].trans_lz2 >>,
              << transmission_lines[tx].trans_lz2, transmission_lines[tx].trans_lz1 >> } :
            tx \in DOMAIN transmission_lines }

\* transport.build: the line under a directional corridor
trans_d_line(zone_from, zone_to) ==
    CHOOSE tx \in DOMAIN transmission_lines :
        { transmission_lines[tx].trans_lz1, transmission_lines[tx].trans_lz2 }
            = { zone_from, zone_to }

\* transport.build: the zones with a corridor that ends in z
TX_CONNECTIONS_TO_ZONE(z) == { zone_from \in TX_LOAD_ZONES : << zone_from, z >> \in DIRECTIONAL_TX }

\* dispatch.py:55-58
TRANS_TIMEPOINTS ==
    { << d[1], d[2], tp >> : d \in DIRECTIONAL_TX, tp \in DOMAIN timepoints_csv }

\* The transmission engine before create_instance constructs its first component.
InitTx ==
    /\ transmission_lines \in TransmissionLineTables
    /\ TxCapacityNameplateAvailable =
           [ k \in (DOMAIN transmission_lines) \X (DOMAIN periods_csv) |->
               TxCapacityLevels(k[1], k[2]) ]
    /\ tx_pc = "Maximum_DispatchTx"
    /\ Maximum_DispatchTx = << >>
    /\ TXPowerNet = << >>
    /\ DispatchTx = << >>

\* Dispatch without commitment in a run that is about another engine alone.
IdleNoCommit ==
    /\ BASELOAD_PROJECTS = { }
    /\ VARIABLE_PROJECTS = { }
    /\ prj_max_capacity_factor = << >>
    /\ proj_availability = << >>
    /\ no_commit_pc = "idle"
    /\ DispatchUpperLimit = << >>
    /\ DispatchLowerLimit = << >>
    /\ DispatchProj = << >>

\* The grouped index sets of a run that is about another engine alone.
IdleGrouping ==
    /\ grouping_pc = "idle"
    /\ grouping_error = "none"
    /\ GENS_IN_ZONE_dict = [ exists |-> FALSE, entries |-> << >> ]
    /\ GENS_IN_ZONE = << >>
    /\ GENS_BY_TECH_dict = [ exists |-> FALSE, entries |-> << >> ]
    /\ GENS_BY_TECHNOLOGY = << >>
    /\ STORAGE_GENS_data = << >>

\* No table has been exported.
IdleExport ==
    /\ outdir = << >>

\* No cost of storage energy is part of the run.
IdleStorageCost ==
    /\ gen_storage_energy_overnight_cost = << >>
    /\ StorageEnergyFixedCost = << >>

\* The curtailment policy is not part of the run.
IdleCurtailment ==
    /\ curtailment_pc = "idle"
    /\ maximum_curtailment_CUR = << >>
    /\ DispatchUpperLimit_mw = << >>
    /\ gen_energy_actual = << >>
    /\ gen_energy_ideal = << >>
    /\ gen_curtailment_ratio = << >>
    /\ gen_curtailment_ratio_cos = << >>

IdleExtensions == IdleGrouping /\ IdleExport /\ IdleStorageCost /\ IdleCurtailment

\* The project modules of a run that is about another engine alone.
IdleProject ==
    /\ proj_gen_tech = << >>
    /\ g_unit_size = << >>
    /\ PROJECT_BUILDYEARS = << >>
    /\ discrete_pc = "idle"
    /\ NEW_PROJ_BUILDYEARS_DISCRETE = { }
    /\ Build_Units_Consistency = << >>
    /\ BuildUnits = << >>
    /\ BuildProj = << >>
    /\ IdleNoCommit
    /\ IdleExtensions

\* The transmission engine of a run that is about another engine alone.
IdleTx ==
    /\ transmission_lines = << >>
    /\ TxCapacityNameplateAvailable = << >>
    /\ tx_pc = "idle"
    /\ Maximum_DispatchTx = << >>
    /\ TXPowerNet = << >>
    /\ DispatchTx = << >>

\* A mutant of the rule: the capacity of the last period bounds every timepoint.
Maximum_DispatchTx_rule_last_period(zone_from, zone_to, tp) ==
    [ dispatch |-> << zone_from, zone_to, tp >>,
      capacity |-> << trans_d_line(zone_from, zone_to),
                      CHOOSE p \in PERIODS : \A q \in PERIODS : q <= p >> ]

\* dispatch.py:61-66: DispatchTx[dispatch] <= TxCapacityNameplateAvailable[capacity]
Maximum_DispatchTx_rule(zone_from, zone_to, tp) ==
    [ dispatch |-> << zone_from, zone_to, tp >>,
      capacity |-> << trans_d_line(zone_from, zone_to), tp_period(tp) >> ]

\* dispatch.py:59-66
construct_Maximum_DispatchTx ==
    /\ tx_pc = "Maximum_DispatchTx"
    /\ Maximum_DispatchTx' =
           [ k \in TRANS_TIMEPOINTS |-> Maximum_DispatchTx_rule(k[1], k[2], k[3]) ]
    /\ tx_pc' = "TXPowerNet"
    /\ UNCHANGED << transmission_lines, TxCapacityNameplateAvailable, TXPowerNet, DispatchTx >>
    /\ UNCHANGED << ledger_vars, build_vars, storage_vars, project_vars >>

\* dispatch.py:68-71: the term of the expression TxPowerSent[zone_from, zone_to, tp]
TxPowerSent_rule(zone_from, zone_to, tp) ==
    [ dispatch |-> << zone_from, zone_to, tp >>, coefficient |-> RInt(1) ]

\* A mutant of the rule: what is sent arrives whole.
TxPowerReceived_rule_lossless(zone_from, zone_to, tp) ==
    [ dispatch |-> << zone_from, zone_to, tp >>, coefficient |-> RInt(1) ]

\* dispatch.py:72-76: the term of the expression TxPowerReceived[zone_from, zone_to, tp]
TxPowerReceived_rule(zone_from, zone_to, tp) ==
    [ dispatch |-> << zone_from, zone_to, tp >>,
      coefficient |-> trans_efficiency(trans_d_line(zone_from, zone_to)) ]

\* dispatch.py:78-83: the terms that are added and the terms that are subtracted
TXPowerNet_calculation(z, tp) ==
    [ received |-> { TxPowerReceived_rule(zone_from, z, tp) :
                        zone_from \in TX_CONNECTIONS_TO_ZONE(z) },
      sent |-> { TxPowerSent_rule(z, zone_to, tp) :
                        zone_to \in TX_CONNECTIONS_TO_ZONE(z) } ]

\* dispatch.py:84-86
construct_TXPowerNet ==
    /\ tx_pc = "TXPowerNet"
    /\ TXPowerNet' =
           [ k \in TX_LOAD_ZONES \X (DOMAIN timepoints_csv) |->
               TXPowerNet_calculation(k[1], k[2]) ]
    /\ tx_pc' = "solve"
    /\ UNCHANGED << transmission_lines, TxCapacityNameplateAvailable, Maximum_DispatchTx,
                    DispatchTx >>
    /\ UNCHANGED << ledger_vars, build_vars, storage_vars, project_vars >>

\* Whether a value of one dispatch variable satisfies its constructed constraint.
Maximum_DispatchTx_holds(c, v) == v <= TxCapacityNameplateAvailable[c.capacity]

\* The value of a constructed expression TXPowerNet[z, tp] under a dispatch.
TXPowerNet_value(e, dispatch) ==
    LET term(x) == RMul(RInt(dispatch[x.dispatch]), x.coefficient)
    IN  RSub(RSumOver([ x \in e.received |-> term(x) ], e.received),
             RSumOver([ x \in e.sent |-> term(x) ], e.sent))

\* dispatch.py:59 (within=NonNegativeReals) and 61-66: the dispatches a solve can return
DispatchTx_candidates ==
    DependentFunctions([ k \in DOMAIN Maximum_DispatchTx |->
        { v \in DispatchTxLevels : v >= 0 /\ Maximum_DispatchTx_holds(Maximum_DispatchTx[k], v) } ])

\* The external solver returns any dispatch that satisfies every constraint; the
\* dispatch of nothing always does.
solve_tx ==
    /\ tx_pc = "solve"
    /\ DispatchTx' \in DispatchTx_candidates
    /\ tx_pc' = "solved"
    /\ UNCHANGED << transmission_lines, TxCapacityNameplateAvailable, Maximum_DispatchTx,
                    TXPowerNet >>
    /\ UNCHANGED << ledger_vars, build_vars, storage_vars, project_vars >>

NextTx ==
    \/ construct_Maximum_DispatchTx
    \/ construct_TXPowerNet
    \/ solve_tx

(***************************************************************************)
(* Claims about the transmission dispatch engine.                          *)
(***************************************************************************)
\* The line of the table that joins two zones, and the zones a line joins to z.
LineJoining(a, b) ==
    { tx \in DOMAIN transmission_lines :
        \/ transmission_lines[tx].trans_lz1 = a /\ transmission_lines[tx].trans_lz2 = b
        \/ transmission_lines[tx].trans_lz1 = b /\ transmission_lines[tx].trans_lz2 = a }

ZonesJoinedTo(z) == { y \in TX_LOAD_ZONES : LineJoining(y, z) # { } }

\* The net injection the claim states, from the tables and the dispatch alone.
NetAsClaimed(z, t) ==
    RSub(RSumOver([ f \in ZonesJoinedTo(z) |->
                      RMul(RInt(DispatchTx[<< f, z, t >>]),
                           transmission_lines[CHOOSE tx \in LineJoining(f, z) : TRUE].trans_efficiency) ],
                  ZonesJoinedTo(z)),
         RSumOver([ d \in ZonesJoinedTo(z) |-> RInt(DispatchTx[<< z, d, t >>]) ],
                  ZonesJoinedTo(z)))

\* C12: the net transmission injection of a zone at a timepoint is what the zone
\* receives, each dispatch towards it times the efficiency of its line, minus what the
\* zone sends; the dispatch of a directional corridor is subtracted once, at its
\* origin, and added once, at its destination.
C12_TXPowerNet ==
    /\ tx_pc = "solved" =>
          \A z \in TX_LOAD_ZONES, t \in DOMAIN timepoints_csv :
              TXPowerNet_value(TXPowerNet[<< z, t >>], DispatchTx) = NetAsClaimed(z, t)
    /\ tx_pc \in { "solve", "solved" } =>
          \A k \in TRANS_TIMEPOINTS :
              /\ { c \in DOMAIN TXPowerNet :
                     \E x \in TXPowerNet[c].sent : x.dispatch = k } = { << k[1], k[3] >> }
              /\ { c \in DOMAIN TXPowerNet :
                     \E x \in TXPowerNet[c].received : x.dispatch = k } = { << k[2], k[3] >> }
              /\ \A c \in DOMAIN TXPowerNet :
                     /\ Cardinality({ x \in TXPowerNet[c].sent : x.dispatch = k }) <= 1
                     /\ Cardinality({ x \in TXPowerNet[c].received : x.dispatch = k }) <= 1

\* The middle zone receives 2 MW over a line that loses a twentieth and 1 MW over a
\* line that loses a tenth while it sends 1 MW: 1.9 + 0.9 - 1 = 1.8 MW net.
C12_Witness ==
    /\ tx_pc = "solved"
    /\ DOMAIN transmission_lines = { "z1-z2", "z2-z3" }
    /\ transmission_lines["z1-z2"].trans_efficiency = << 19, 20 >>
    /\ 3 \in DOMAIN timepoints_csv
    /\ DispatchTx[<< "z1", "z2", 3 >>] = 2
    /\ DispatchTx[<< "z3", "z2", 3 >>] = 1
    /\ DispatchTx[<< "z2", "z1", 3 >>] = 1
    /\ DispatchTx[<< "z2", "z3", 3 >>] = 0
    /\ TXPowerNet_value(TXPowerNet[<< "z2", 3 >>], DispatchTx) = << 9, 5 >>

\* Whether a dispatch satisfies every constraint constructed on the dispatch variables.
TxFeasible(dispatch) ==
    \A k \in DOMAIN Maximum_DispatchTx :
        /\ dispatch[k] >= 0
        /\ Maximum_DispatchTx_holds(Maximum_DispatchTx[k], dispatch[k])

\* The capacity the claim states for a corridor at a timepoint, from the tables alone.
CapacityAsClaimedTx(zone_from, zone_to, t) ==
    TxCapacityNameplateAvailable[<< CHOOSE tx \in LineJoining(zone_from, zone_to) : TRUE,
                                    timeseries_csv[timepoints_csv[t]].ts_period >>]

\* C13: the dispatch along a directional corridor at a timepoint lies between 0 and the
\* capacity available on its line in the period of the timepoint; nothing else bounds
\* it: whatever the other direction and the other timepoints carry, every level up to
\* that capacity is a dispatch the constraints admit.
C13_MaximumDispatchTx ==
    tx_pc = "solved" =>
        \A tx \in DOMAIN transmission_lines, t \in DOMAIN timepoints_csv :
            \A d \in { << transmission_lines[tx].trans_lz1, transmission_lines[tx].trans_lz2 >>,
                       << transmission_lines[tx].trans_lz2, transmission_lines[tx].trans_lz1 >> } :
                LET k == << d[1], d[2], t >>
                IN  /\ k \in DOMAIN DispatchTx
                    /\ 0 <= DispatchTx[k]
                    /\ DispatchTx[k] <= CapacityAsClaimedTx(d[1], d[2], t)
                    /\ \A v \in DispatchTxLevels :
                           v <= CapacityAsClaimedTx(d[1], d[2], t)
                               <=> TxFeasible([ DispatchTx EXCEPT ![k] = v ])

\* Both directions of a line run at its capacity at the first timepoint, the flow
\* reverses at the second, and the third, in a later period, carries the larger
\* capacity of that period.
C13_Witness ==
    /\ tx_pc = "solved"
    /\ DOMAIN periods_csv = { 2020, 2030 }
    /\ DispatchTx[<< "z1", "z2", 1 >>] = 1
    /\ DispatchTx[<< "z2", "z1", 1 >>] = 1
    /\ DispatchTx[<< "z1", "z2", 2 >>] = 0
    /\ DispatchTx[<< "z2", "z1", 2 >>] = 1
    /\ DispatchTx[<< "z1", "z2", 3 >>] = 2
    /\ DispatchTx[<< "z2", "z1", 3 >>] = 0
    /\ TxCapacityNameplateAvailable[<< "z1-z2", 2020 >>] = 1
    /\ TxCapacityNameplateAvailable[<< "z1-z2", 2030 >>] = 2

(***************************************************************************)
(* Claims about the operability sets of the build ledger.                  *)
(***************************************************************************)
\* C27: once the operability sets are constructed, a period is among the periods of
\* a vintage exactly when the build year is among the build years of the project
\* in that period; and once GEN_PERIODS is constructed, it holds (g, p) exactly
\* when some build year of g operates in p, so it is smaller than the cross
\* product of projects and periods when a project has no such build year in a
\* period.
C27_OperabilitySetsConsistent ==
    /\ "BLD_YRS_FOR_GEN_PERIOD" \in built =>
          \A k \in GEN_BLD_YRS, p \in PERIODS :
              p \in PERIODS_FOR_GEN_BLD_YR[k] <=> k[2] \in BLD_YRS_FOR_GEN_PERIOD[<< k[1], p >>]
    /\ "GEN_PERIODS" \in built =>
          /\ \A g \in GENERATION_PROJECTS, p \in PERIODS :
                 << g, p >> \in GEN_PERIODS <=> BLD_YRS_FOR_GEN_PERIOD[<< g, p >>] # { }
          /\ (\E g \in GENERATION_PROJECTS, p \in PERIODS :
                 BLD_YRS_FOR_GEN_PERIOD[<< g, p >>] = { })
                => GEN_PERIODS # GENERATION_PROJECTS \X PERIODS

\* The first project operates in 2020 and not in 2030, where the second one does.
C27_Witness ==
    /\ "GEN_PERIODS" \in built
    /\ PERIODS = { 2020, 2030 }
    /\ << "g1", 2020 >> \in GEN_PERIODS
    /\ << "g1", 2030 >> \notin GEN_PERIODS
    /\ 2020 \in BLD_YRS_FOR_GEN_PERIOD[<< "g1", 2020 >>]
    /\ << "g2", 2020 >> \in GEN_BLD_YRS
    /\ 2030 \in PERIODS_FOR_GEN_BLD_YR[<< "g2", 2020 >>]

\* The new vintages of the projects that retire by age alone.
NewVintagesRetiredByAge ==
    { k \in NEW_GEN_BLD_YRS : k[2] \in PERIODS /\ gen_retirement_year(k[1]) = 0 }

\* C28 as it is stated: a new vintage of a project that retires by age alone
\* operates in the period it is built in, and its build year is among the ones
\* that GenCapacity sums in that period.
C28_AsStated ==
    /\ "PERIODS_FOR_GEN_BLD_YR" \in built =>
          \A k \in NewVintagesRetiredByAge : k[2] \in PERIODS_FOR_GEN_BLD_YR[k]
    /\ "GenCapacity" \in built =>
          \A k \in NewVintagesRetiredByAge : k[2] \in GenCapacity[k]

\* C28: a new vintage of a project that retires by age alone operates in the
\* period it is built in, and counts towards GenCapacity there, exactly when the
\* maximum age of the project is more than half the length of that period.
C28_OperableInOwnPeriod ==
    /\ "PERIODS_FOR_GEN_BLD_YR" \in built =>
          \A k \in NewVintagesRetiredByAge :
              k[2] \in PERIODS_FOR_GEN_BLD_YR[k]
                  <=> 2 * gen_max_age(k[1]) > period_length_years(k[2])
    /\ "GenCapacity" \in built =>
          \A k \in NewVintagesRetiredByAge :
              k[2] \in GenCapacity[k]
                  <=> 2 * gen_max_age(k[1]) > period_length_years(k[2])

\* A project of 5 years built in a period of 10 years never operates in it, next to
\* a project of 20 years that does.
C28_Witness ==
    /\ "GenCapacity" \in built
    /\ << "g1", 2020 >> \in NewVintagesRetiredByAge
    /\ gen_max_age("g1") = 5
    /\ period_length_years(2020) = 10
    /\ 2020 \notin GenCapacity[<< "g1", 2020 >>]
    /\ << "g2", 2020 >> \in NewVintagesRetiredByAge
    /\ 2020 \in GenCapacity[<< "g2", 2020 >>]

(***************************************************************************)
(* Discrete builds (switch_mod/project/discrete_build.py).                 *)
(***************************************************************************)
\* The capacities, in MW, and the numbers of units that a solve chooses among.
BuildProjLevels == { 0, 25, 50, 75, 100 }
BuildUnitsLevels == (0 - 1) .. 4

\* gen_tech and project.build: a turbine project, whose technology comes in units of
\* 25 MW or of 50 MW or has no unit size, and a solar project, whose technology has
\* none; the turbine project has 75 MW of 2010 or not, and both can be built in 2020,
\* the turbine project in 2030 as well or not.
DiscreteTables ==
    { [ tech |-> [ proj \in { "p1", "p2" } |-> IF proj = "p1" THEN "turbine" ELSE "solar" ],
        unit_size |-> size,
        build_years |-> existing @@ [ k \in { << "p1", 2020 >>, << "p2", 2020 >> } \cup later |->
                                        << >> ] ] :
        size \in { << >>, [ t \in { "turbine" } |-> 25 ], [ t \in { "turbine" } |-> 50 ] },
        existing \in { << >>, [ k \in { << "p1", 2010 >> } |-> [ proj_existing_cap |-> 75 ] ] },
        later \in { { }, { << "p1", 2030 >> } } }

\* gen_tech: the technologies that have a unit size
GEN_TECH_WITH_UNIT_SIZES == DOMAIN g_unit_size

\* project.build: the vintages that exist already and the ones that can be built
EXISTING_PROJ_BUILDYEARS ==
    { k \in DOMAIN PROJECT_BUILDYEARS : "proj_existing_cap" \in DOMAIN PROJECT_BUILDYEARS[k] }
NEW_PROJ_BUILDYEARS == DOMAIN PROJECT_BUILDYEARS \ EXISTING_PROJ_BUILDYEARS

InitDiscrete ==
    /\ \E tables \in DiscreteTables :
          /\ proj_gen_tech = tables.tech
          /\ g_unit_size = tables.unit_size
          /\ PROJECT_BUILDYEARS = tables.build_years
    /\ discrete_pc = "NEW_PROJ_BUILDYEARS_DISCRETE"
    /\ NEW_PROJ_BUILDYEARS_DISCRETE = { }
    /\ Build_Units_Consistency = << >>
    /\ BuildUnits = << >>
    /\ BuildProj = << >>
    /\ IdleNoCommit
    /\ IdleExtensions

\* discrete_build.py:46-49
construct_NEW_PROJ_BUILDYEARS_DISCRETE ==
    /\ discrete_pc = "NEW_PROJ_BUILDYEARS_DISCRETE"
    /\ NEW_PROJ_BUILDYEARS_DISCRETE' =
           { k \in NEW_PROJ_BUILDYEARS : proj_gen_tech[k[1]] \in GEN_TECH_WITH_UNIT_SIZES }
    /\ discrete_pc' = "Build_Units_Consistency"
    /\ UNCHANGED << proj_gen_tech, g_unit_size, PROJECT_BUILDYEARS, Build_Units_Consistency,
                    BuildUnits, BuildProj, no_commit_vars, extension_vars >>
    /\ UNCHANGED << ledger_vars, build_vars, storage_vars, tx_vars >>

\* A mutant of the rule: the units are a lower bound of the build.
Build_Units_Consistency_rule_at_least(proj, bld_yr) ==
    [ build |-> << proj, bld_yr >>, relation |-> ">=", units |-> << proj, bld_yr >>,
      size |-> g_unit_size[proj_gen_tech[proj]] ]

\* discrete_build.py:53-57: BuildProj[build] == BuildUnits[units] * size
Build_Units_Consistency_rule(proj, bld_yr) ==
    [ build |-> << proj, bld_yr >>, relation |-> "==", units |-> << proj, bld_yr >>,
      size |-> g_unit_size[proj_gen_tech[proj]] ]

\* discrete_build.py:50-57
construct_Build_Units_Consistency ==
    /\ discrete_pc = "Build_Units_Consistency"
    /\ Build_Units_Consistency' =
           [ k \in NEW_PROJ_BUILDYEARS_DISCRETE |-> Build_Units_Consistency_rule(k[1], k[2]) ]
    /\ discrete_pc' = "solve"
    /\ UNCHANGED << proj_gen_tech, g_unit_size, PROJECT_BUILDYEARS,
                    NEW_PROJ_BUILDYEARS_DISCRETE, BuildUnits, BuildProj, no_commit_vars, extension_vars >>
    /\ UNCHANGED << ledger_vars, build_vars, storage_vars, tx_vars >>

\* Whether the constructed constraints hold under a build and numbers of units.
Build_Units_Consistency_holds(build, units) ==
    \A k \in DOMAIN Build_Units_Consistency :
        LET c == Build_Units_Consistency[k]
        IN  IF c.relation = "=="
            THEN build[c.build] = units[c.units] * c.size
            ELSE build[c.build] >= units[c.units] * c.size

\* project.build: a vintage that exists has its capacity, a new one is not negative
BuildProj_candidates ==
    DependentFunctions([ k \in DOMAIN PROJECT_BUILDYEARS |->
        IF k \in EXISTING_PROJ_BUILDYEARS
        THEN { PROJECT_BUILDYEARS[k].proj_existing_cap }
        ELSE { v \in BuildProjLevels : v >= 0 } ])

\* discrete_build.py:50-52: within=NonNegativeIntegers
BuildUnits_candidates ==
    [ NEW_PROJ_BUILDYEARS_DISCRETE -> { v \in BuildUnitsLevels : v >= 0 } ]

\* The external solver returns any build and units that satisfy the constraints;
\* building nothing always does.
solve_discrete ==
    /\ discrete_pc = "solve"
    /\ \E build \in BuildProj_candidates, units \in BuildUnits_candidates :
          /\ Build_Units_Consistency_holds(build, units)
          /\ BuildProj' = build
          /\ BuildUnits' = units
    /\ discrete_pc' = "solved"
    /\ UNCHANGED << proj_gen_tech, g_unit_size, PROJECT_BUILDYEARS,
                    NEW_PROJ_BUILDYEARS_DISCRETE, Build_Units_Consistency, no_commit_vars, extension_vars >>
    /\ UNCHANGED << ledger_vars, build_vars, storage_vars, tx_vars >>

NextDiscrete ==
    \/ construct_NEW_PROJ_BUILDYEARS_DISCRETE
    \/ construct_Build_Units_Consistency
    \/ solve_discrete

(***************************************************************************)
(* Claims about discrete builds.                                           *)
(***************************************************************************)
\* The vintages the claim constrains: not yet built, of a technology with a unit size.
DiscreteAsClaimed ==
    { k \in DOMAIN PROJECT_BUILDYEARS :
        /\ "proj_existing_cap" \notin DOMAIN PROJECT_BUILDYEARS[k]
        /\ proj_gen_tech[k[1]] \in DOMAIN g_unit_size }

\* C19: the build of a new vintage of a project whose technology has a unit size is a
\* non-negative whole number of units times the unit size; the vintages of a
\* technology without a unit size and the vintages that exist already have neither a
\* number of units nor a consistency constraint.
C19_DiscreteBuild ==
    /\ discrete_pc \in { "solve", "solved" } =>
           DOMAIN Build_Units_Consistency = DiscreteAsClaimed
    /\ discrete_pc = "solved" =>
           /\ DOMAIN BuildUnits = DiscreteAsClaimed
           /\ \A k \in DiscreteAsClaimed :
                  /\ BuildUnits[k] \in Nat
                  /\ BuildProj[k] = BuildUnits[k] * g_unit_size[proj_gen_tech[k[1]]]
                  /\ BuildProj[k] % g_unit_size[proj_gen_tech[k[1]]] = 0

\* Two turbines of 50 MW are built in 2020 next to 75 MW that exist, a build that
\* is no multiple of 50 MW, and the solar project builds 25 MW.
C19_Witness ==
    /\ discrete_pc = "solved"
    /\ "turbine" \in DOMAIN g_unit_size
    /\ g_unit_size["turbine"] = 50
    /\ << "p1", 2010 >> \in DOMAIN BuildProj
    /\ BuildProj[<< "p1", 2010 >>] = 75
    /\ BuildUnits[<< "p1", 2020 >>] = 2
    /\ BuildProj[<< "p1", 2020 >>] = 100
    /\ BuildProj[<< "p2", 2020 >>] = 25

(***************************************************************************)
(* The single-zone scenario: the ledger passes of a model of load zones    *)
(* and dispatch, the construction of build.py, the dispatch limits of      *)
(* switch_mod/project/no_commit.py and the balance of load_zones.py.       *)
(***************************************************************************)
\* The dispatch, in MW, that a solve chooses among, and the demand of the scenario.
DispatchProjLevels == { 0, 64, 80, 100 }
ScenarioDemand == [ t \in { 1, 2 } |-> 80 ]

\* One period labelled 2020 with one timeseries of two timepoints.
ScenarioTimeTables ==
    { [ periods |-> [ p \in { 2020 } |-> r ],
        timeseries |-> [ ts \in { "A" } |-> [ ts_period |-> 2020, ts_duration_of_tp |-> 12 ] ],
        timepoints |-> [ t \in DOMAIN ScenarioDemand |-> "A" ] ] : r \in PeriodRows(2020) }

\* generation_projects_info.csv: one project of zone z1, limited to 100 MW, that
\* lasts 20 years or 5.
ScenarioProjectTables ==
    { [ g \in { "g1" } |->
          [ gen_load_zone |-> "z1", gen_max_age |-> a, gen_retirement_year |-> 0,
            gen_min_build_capacity |-> 0, gen_capacity_limit_mw |-> 100 ] ] : a \in { 5, 20 } }

\* gen_build_predetermined.csv: 100 MW built in 2020, the label of the period, or
\* in 2010.
ScenarioPredeterminedTables ==
    { [ k \in { << "g1", y >> } |-> [ gen_predetermined_cap |-> 100 ] ] : y \in { 2010, 2020 } }

\* The project is an ordinary one, a baseload one or one whose resource allows 80%
\* of the capacity at the first timepoint; 100% or 80% of a capacity is available.
ScenarioDispatchTables ==
    { [ baseload |-> IF kind = "baseload" THEN { "g1" } ELSE { },
        variable |-> IF kind = "variable" THEN { "g1" } ELSE { },
        factor |-> IF kind = "variable"
                   THEN [ k \in { "g1" } \X DOMAIN ScenarioDemand |->
                            IF k[2] = 1 THEN << 4, 5 >> ELSE << 1, 1 >> ]
                   ELSE << >>,
        availability |-> [ g \in { "g1" } |-> a ] ] :
        kind \in { "ordinary", "baseload", "variable" }, a \in { << 1, 1 >>, << 4, 5 >> } }

InitScenario ==
    /\ module_list \in { << "load_zones", "dispatch" >>, << "dispatch", "load_zones" >> }
    /\ phase = "define_dynamic_lists"
    /\ next_mod = 1
    /\ attrs = { }
    /\ Zone_Power_Injections = << >>
    /\ Zone_Power_Withdrawals = << >>
    /\ Distributed_Power_Withdrawals = << >>
    /\ declared = { }
    /\ zone_demand_mw = << >>
    /\ Zone_Energy_Balance = << >>
    /\ value = << >>
    /\ status = "building"
    /\ \E tables \in ScenarioTimeTables :
          /\ periods_csv = tables.periods
          /\ timeseries_csv = tables.timeseries
          /\ timepoints_csv = tables.timepoints
    /\ generation_projects_info \in ScenarioProjectTables
    /\ gen_build_predetermined \in ScenarioPredeterminedTables
    /\ gen_build_costs = DOMAIN gen_build_predetermined
    /\ build_pc = "idle"
    /\ build_error = "none"
    /\ built = { }
    /\ PREDETERMINED_BLD_YRS = { }
    /\ GEN_BLD_YRS = { }
    /\ NEW_GEN_BLD_YRS = { }
    /\ PERIODS_FOR_GEN_BLD_YR = << >>
    /\ BLD_YRS_FOR_GEN_PERIOD = << >>
    /\ GEN_PERIODS = { }
    /\ BuildGen_bounds = << >>
    /\ BuildGen = << >>
    /\ GenCapacity = << >>
    /\ Max_Build_Potential = { }
    /\ NEW_GEN_WITH_MIN_BUILD_YEARS = { }
    /\ BuildMinGenCap = << >>
    /\ BuildStorageEnergy_bounds = << >>
    /\ BuildStorageEnergy = << >>
    /\ storage_pc = "idle"
    /\ storage_error = "none"
    /\ STORAGE_GEN_TPS = { }
    /\ Track_State_Of_Charge = << >>
    /\ State_Of_Charge_Upper_Limit = << >>
    /\ State_Of_Charge_Lower_Limit = << >>
    /\ ChargeStorage = << >>
    /\ DispatchGen = << >>
    /\ StateOfCharge = << >>
    /\ Storage_Charge_Summation_dict = [ exists |-> FALSE, entries |-> << >> ]
    /\ StorageNetCharge = << >>
    /\ Enforce_Fixed_Energy_Storage_Ratio = << >>
    /\ Battery_Cycle_Limit = << >>
    /\ proj_gen_tech = << >>
    /\ g_unit_size = << >>
    /\ PROJECT_BUILDYEARS = << >>
    /\ discrete_pc = "idle"
    /\ NEW_PROJ_BUILDYEARS_DISCRETE = { }
    /\ Build_Units_Consistency = << >>
    /\ BuildUnits = << >>
    /\ BuildProj = << >>
    /\ IdleExtensions
    /\ \E tables \in ScenarioDispatchTables :
          /\ BASELOAD_PROJECTS = tables.baseload
          /\ VARIABLE_PROJECTS = tables.variable
          /\ prj_max_capacity_factor = tables.factor
          /\ proj_availability = tables.availability
    /\ no_commit_pc = "DispatchUpperLimit"
    /\ DispatchUpperLimit = << >>
    /\ DispatchLowerLimit = << >>
    /\ DispatchProj = << >>

\* The dispatch module, as far as the ledger sees it: the dispatch of the projects
\* of a zone is registered as an injection.
dispatch_define_components ==
    /\ AtModule("define_components", "dispatch")
    /\ declared' = declared \cup { "DispatchProj", "ZoneTotalCentralDispatch" }
    /\ Zone_Power_Injections' = Append(Zone_Power_Injections, "ZoneTotalCentralDispatch")
    /\ Advance("define_components", "define_dynamic_components")
    /\ UNCHANGED << module_list, attrs, Zone_Power_Withdrawals,
                    Distributed_Power_Withdrawals, zone_demand_mw,
                    Zone_Energy_Balance, value, status >>
    /\ UNCHANGED << build_vars, storage_vars, tx_vars, project_vars >>

\* project.dispatch: the timepoints at which a project has capacity that operates
PROJ_DISPATCH_POINTS ==
    { k \in GENERATION_PROJECTS \X DOMAIN timepoints_csv : k[2] \in TPS_FOR_GEN(k[1]) }

\* no_commit.py:65-70: ProjCapacityTP[capacity] * factor
DispatchUpperLimit_expr(proj, t) ==
    IF proj \in VARIABLE_PROJECTS
    THEN [ capacity |-> << proj, t >>,
           factor |-> RMul(proj_availability[proj], prj_max_capacity_factor[<< proj, t >>]) ]
    ELSE [ capacity |-> << proj, t >>, factor |-> proj_availability[proj] ]

\* A mutant of the expression: a baseload project has no lower limit either.
DispatchLowerLimit_expr_zero(proj, t) ==
    [ constant |-> 0 ]

\* no_commit.py:75-79
DispatchLowerLimit_expr(proj, t) ==
    IF proj \in BASELOAD_PROJECTS
    THEN DispatchUpperLimit_expr(proj, t)
    ELSE [ constant |-> 0 ]

\* no_commit.py:71-91: the two expressions, and the two constraints that hold the
\* dispatch between them, once the components of build.py are constructed.
construct_DispatchLimits ==
    /\ build_pc = "solve"
    /\ no_commit_pc = "DispatchUpperLimit"
    /\ DispatchUpperLimit' =
           [ k \in PROJ_DISPATCH_POINTS |-> DispatchUpperLimit_expr(k[1], k[2]) ]
    /\ DispatchLowerLimit' =
           [ k \in PROJ_DISPATCH_POINTS |-> DispatchLowerLimit_expr(k[1], k[2]) ]
    /\ no_commit_pc' = "Zone_Energy_Balance"
    /\ UNCHANGED << BASELOAD_PROJECTS, VARIABLE_PROJECTS, prj_max_capacity_factor,
                    proj_availability, DispatchProj, discrete_vars, extension_vars >>
    /\ UNCHANGED << ledger_vars, build_vars, storage_vars, tx_vars >>

\* load_zones.py:102-108 and 159-167 for the zone of the scenario: loads.csv gives
\* the demand and the rule of the balance is run on every (zone, timepoint).
construct_Zone_Energy_Balance ==
    /\ no_commit_pc = "Zone_Energy_Balance"
    /\ phase = "create_instance"
    /\ zone_demand_mw' = [ zt \in { "z1" } \X DOMAIN timepoints_csv |-> ScenarioDemand[zt[2]] ]
    /\ Zone_Energy_Balance' =
          IF "Zone_Energy_Balance" \in declared
          THEN [ zt \in { "z1" } \X DOMAIN timepoints_csv |->
                   Zone_Energy_Balance_rule(zt[1], zt[2]) ]
          ELSE << >>
    /\ phase' = "solve"
    /\ status' = "constructed"
    /\ no_commit_pc' = "solve"
    /\ UNCHANGED << module_list, next_mod, attrs, Zone_Power_Injections,
                    Zone_Power_Withdrawals, Distributed_Power_Withdrawals, declared,
                    value >>
    /\ UNCHANGED << BASELOAD_PROJECTS, VARIABLE_PROJECTS, prj_max_capacity_factor,
                    proj_availability, DispatchUpperLimit, DispatchLowerLimit,
                    DispatchProj, discrete_vars, extension_vars >>
    /\ UNCHANGED << build_vars, storage_vars, tx_vars >>

\* The value of a limit when BuildGen has the values bg.
DispatchLimit_value(e, bg) ==
    IF "constant" \in DOMAIN e
    THEN RInt(e.constant)
    ELSE RMul(RInt(GenCapacity_value(bg, e.capacity[1], tp_period(e.capacity[2]))),
              e.factor)

\* no_commit.py:84-91
Enforce_Dispatch_Limits_hold(dispatch, bg) ==
    \A k \in DOMAIN DispatchUpperLimit :
        /\ RLe(DispatchLimit_value(DispatchLowerLimit[k], bg), RInt(dispatch[k]))
        /\ RLe(RInt(dispatch[k]), DispatchLimit_value(DispatchUpperLimit[k], bg))

\* The injection of a zone: the dispatch of its projects.
ZoneTotalCentralDispatch_value(dispatch) ==
    [ zt \in DOMAIN zone_demand_mw |->
        LET here == { k \in DOMAIN dispatch :
                        gen_load_zone(k[1]) = zt[1] /\ k[2] = zt[2] }
        IN  SumOver([ k \in here |-> dispatch[k] ], here) ]

ScenarioFeasible(dispatch, bg, gate) ==
    /\ BuildFeasible(bg, gate)
    /\ Enforce_Dispatch_Limits_hold(dispatch, bg)
    /\ LET val == [ c \in { "ZoneTotalCentralDispatch" } |->
                      ZoneTotalCentralDispatch_value(dispatch) ]
       IN  \A zt \in DOMAIN Zone_Energy_Balance :
               ConstraintHolds(val, Zone_Energy_Balance[zt])

\* The external solver returns any assignment that satisfies the bounds and the
\* constraints ...
solve_scenario ==
    /\ no_commit_pc = "solve"
    /\ \E bg \in BuildGen_candidates, gate \in BuildMinGenCap_candidates,
          en \in BuildStorageEnergy_candidates,
          dispatch \in [PROJ_DISPATCH_POINTS -> DispatchProjLevels] :
          /\ ScenarioFeasible(dispatch, bg, gate)
          /\ BuildGen' = bg
          /\ BuildMinGenCap' = gate
          /\ BuildStorageEnergy' = en
          /\ DispatchProj' = dispatch
          /\ value' = [ c \in { "ZoneTotalCentralDispatch" } |->
                          ZoneTotalCentralDispatch_value(dispatch) ]
    /\ status' = "optimal"
    /\ phase' = "done"
    /\ build_pc' = "solved"
    /\ no_commit_pc' = "solved"
    /\ UNCHANGED << module_list, next_mod, attrs, Zone_Power_Injections,
                    Zone_Power_Withdrawals, Distributed_Power_Withdrawals, declared,
                    zone_demand_mw, Zone_Energy_Balance >>
    /\ UNCHANGED << build_inputs, build_error, built, PREDETERMINED_BLD_YRS,
                    GEN_BLD_YRS, NEW_GEN_BLD_YRS, PERIODS_FOR_GEN_BLD_YR,
                    BLD_YRS_FOR_GEN_PERIOD, GEN_PERIODS, BuildGen_bounds, GenCapacity,
                    Max_Build_Potential, NEW_GEN_WITH_MIN_BUILD_YEARS,
                    BuildStorageEnergy_bounds >>
    /\ UNCHANGED << BASELOAD_PROJECTS, VARIABLE_PROJECTS, prj_max_capacity_factor,
                    proj_availability, DispatchUpperLimit, DispatchLowerLimit,
                    discrete_vars, extension_vars >>
    /\ UNCHANGED << storage_vars, tx_vars >>

\* ... or reports that there is none.
solve_scenario_infeasible ==
    /\ no_commit_pc = "solve"
    /\ ~ \E bg \in BuildGen_candidates, gate \in BuildMinGenCap_candidates,
            dispatch \in [PROJ_DISPATCH_POINTS -> DispatchProjLevels] :
            ScenarioFeasible(dispatch, bg, gate)
    /\ status' = "infeasible"
    /\ phase' = "done"
    /\ build_pc' = "infeasible"
    /\ no_commit_pc' = "infeasible"
    /\ UNCHANGED << module_list, next_mod, attrs, Zone_Power_Injections,
                    Zone_Power_Withdrawals, Distributed_Power_Withdrawals, declared,
                    zone_demand_mw, Zone_Energy_Balance, value >>
    /\ UNCHANGED << build_inputs, build_error, built, build_components >>
    /\ UNCHANGED << BASELOAD_PROJECTS, VARIABLE_PROJECTS, prj_max_capacity_factor,
                    proj_availability, DispatchUpperLimit, DispatchLowerLimit,
                    DispatchProj, discrete_vars, extension_vars >>
    /\ UNCHANGED << storage_vars, tx_vars >>

NextScenario ==
    \/ load_zones_define_dynamic_lists
    \/ skip_module
    \/ load_zones_define_components
    \/ dispatch_define_components
    \/ load_zones_define_dynamic_components
    \/ create_instance_components
    \/ construct_build_year_sets
    \/ no_predetermined_bld_yr_vs_period_conflict
    \/ construct_operability_sets
    \/ construct_BuildGen
    \/ construct_capacity
    \/ construct_min_build
    \/ construct_storage_build
    \/ construct_DispatchLimits
    \/ construct_Zone_Energy_Balance
    \/ solve_scenario
    \/ solve_scenario_infeasible

(***************************************************************************)
(* Claims about the single-zone scenario.                                  *)
(***************************************************************************)
\* The year of the predetermined build of the scenario.
ScenarioBuildYear == (CHOOSE k \in DOMAIN gen_build_predetermined : TRUE)[2]

\* What the scenario expects of a solved model: 100 MW in the period, a dispatch of
\* at most 100 MW that is at least the demand when the project is baseload, and a
\* balance of the dispatch alone against the demand alone.
ScenarioSolvedAsClaimed ==
    /\ GenCapacity_value(BuildGen, "g1", 2020) = 100
    /\ Zone_Power_Injections = << "ZoneTotalCentralDispatch" >>
    /\ Zone_Power_Withdrawals = << "zone_demand_mw" >>
    /\ \A t \in DOMAIN timepoints_csv :
          /\ << "g1", t >> \in DOMAIN DispatchProj
          /\ DispatchProj[<< "g1", t >>] <= 100
          /\ "g1" \in BASELOAD_PROJECTS => DispatchProj[<< "g1", t >>] >= ScenarioDemand[t]
          /\ DispatchProj[<< "g1", t >>] = zone_demand_mw[<< "z1", t >>]
          /\ zone_demand_mw[<< "z1", t >>] = ScenarioDemand[t]

Reorderings(s) ==
    { [ i \in DOMAIN s |-> s[f[i]] ] :
        f \in { g \in [ DOMAIN s -> DOMAIN s ] :
                  \A i, j \in DOMAIN s : g[i] = g[j] => i = j } }

\* The columns of an exported table that come before the term columns.
LeadingColumns(file) ==
    IF file = "load_balance" THEN 3 ELSE IF file = "load_balance_annual_zonal" THEN 2 ELSE 1

\* The total of a component of the solved model over what a row of an exported
\* table stands for: a zone at a timepoint, a zone in a period, or a period, where
\* a timepoint counts for the hours of the year it stands for.
RowTotal(file, k, name) ==
    IF file = "load_balance" THEN ValueAt(value, name, k[1], k[2])
    ELSE IF file = "load_balance_annual_zonal"
    THEN 2 * ValueAt(value, name, k[1], 1) + 3 * ValueAt(value, name, k[1], 2)
    ELSE 2 * (ValueAt(value, name, "z1", 1) + ValueAt(value, name, "z2", 1))
             + 3 * (ValueAt(value, name, "z1", 2) + ValueAt(value, name, "z2", 2))

\* C23: the assignments that satisfy the constructed Zone_Energy_Balance are those
\* that balance the registries in any other order of registration; load_balance.csv
\* has, after its three leading columns, the injections in the order of registration
\* and then the withdrawals in the order of registration, an injection with its
\* value and a withdrawal with its value negated, and the term columns of every
\* row of a solved model sum to zero.
C23_OrderAndExport ==
    /\ phase = "solve" =>
           \A val \in Candidates :
               \A inj \in Reorderings(Zone_Power_Injections),
                  wd \in Reorderings(Zone_Power_Withdrawals) :
                   Feasible(val) <=>
                       \A zt \in ZONE_TIMEPOINTS :
                           RegistrySum(val, inj, zt[1], zt[2])
                               = RegistrySum(val, wd, zt[1], zt[2])
    /\ DOMAIN outdir # { } =>
           /\ DOMAIN outdir.load_balance.rows = ZONE_TIMEPOINTS
           /\ \A file \in DOMAIN outdir :
                  LET n == Len(Zone_Power_Injections)
                      m == Len(Zone_Power_Withdrawals)
                      keys == Len(outdir[file].headings) - n - m
                  IN  /\ keys = LeadingColumns(file)
                      /\ SubSeq(outdir[file].headings, keys + 1, keys + n)
                             = Zone_Power_Injections
                      /\ SubSeq(outdir[file].headings, keys + n + 1, keys + n + m)
                             = Zone_Power_Withdrawals
                      /\ \A k \in DOMAIN outdir[file].rows :
                             LET row == outdir[file].rows[k]
                             IN  /\ Len(row) = keys + n + m
                                 /\ \A i \in 1..n :
                                        row[keys + i]
                                            = RowTotal(file, k, Zone_Power_Injections[i])
                                 /\ \A j \in 1..m :
                                        row[keys + n + j]
                                            = 0 - RowTotal(file, k,
                                                           Zone_Power_Withdrawals[j])
                                 /\ SumSeq(SubSeq(row, keys + 1, keys + n + m)) = 0

\* The transmission engine ran before the storage engine: the tables have the net
\* import of z1 at the first timepoint, 1 MW, and the charging it feeds, -1 MW.
C23_Witness ==
    /\ DOMAIN outdir # { }
    /\ outdir.load_balance.headings =
           << "load_zone", "timestamp", "normalized_energy_balance_duals_dollar_per_mwh",
              "TXPowerNet", "zone_demand_mw", "StorageNetCharge" >>
    /\ outdir.load_balance.rows[<< "z1", 1 >>] = << "z1", "2020010100", 35, 1, 0, -1 >>
    /\ outdir.load_balance_annual_zonal.rows[<< "z1", 2020 >>][3] > 0
    /\ outdir.load_balance_annual.rows[2020][4] < 0

(***************************************************************************)
(* The grouped index sets of the build ledger (build.py:298-337) and the   *)
(* set of storage projects (storage.py:158-169, 442-447).                  *)
(***************************************************************************)
\* The rows of generation_projects_info.csv, in the order of the file.
GroupingProjects == << "g1", "g2", "g3" >>

\* min_soc.py:26: the technologies the input pipeline takes for storage
storage_techs == { "Battery_Storage" }

\* generation_projects_info.csv: g1 and g2 are in either zone, of a storage technology
\* or not, with or without a round-trip efficiency (one that is a share, or 120%);
\* g3 is a battery in z1 with an efficiency, so that the column has a value.
GroupingInfoRows ==
    { base @@ sto :
        base \in { [ gen_load_zone |-> z, gen_tech |-> t ] :
                     z \in LOAD_ZONES, t \in { "Battery_Storage", "CCGT" } },
        sto \in { << >>, [ gen_storage_efficiency |-> << 17, 20 >> ],
                  [ gen_storage_efficiency |-> << 6, 5 >> ] } }

GroupingInfoTables ==
    { [ g \in Range(GroupingProjects) |->
          IF g = "g1" THEN r1
          ELSE IF g = "g2" THEN r2
          ELSE [ gen_load_zone |-> "z1", gen_tech |-> "Battery_Storage",
                 gen_storage_efficiency |-> << 17, 20 >> ] ] :
        r1 \in GroupingInfoRows, r2 \in GroupingInfoRows }

\* build.py:231-237
gen_tech(g) == generation_projects_info[g].gen_tech
GENERATION_TECHNOLOGIES == { gen_tech(g) : g \in GENERATION_PROJECTS }

\* The projects in the order `for g in m.GENERATION_PROJECTS` visits them.
GENERATION_PROJECTS_in_order ==
    SelectSeq(GroupingProjects, LAMBDA g : g \in GENERATION_PROJECTS)

InitGrouping ==
    /\ generation_projects_info \in GroupingInfoTables
    /\ grouping_pc = "load_inputs"
    /\ grouping_error = "none"
    /\ GENS_IN_ZONE_dict = [ exists |-> FALSE, entries |-> << >> ]
    /\ GENS_IN_ZONE = << >>
    /\ GENS_BY_TECH_dict = [ exists |-> FALSE, entries |-> << >> ]
    /\ GENS_BY_TECHNOLOGY = << >>
    /\ STORAGE_GENS_data = << >>

\* storage.py:442-447: the storage projects are the keys of gen_storage_efficiency
storage_load_inputs ==
    /\ grouping_pc = "load_inputs"
    /\ STORAGE_GENS_data' =
           SelectSeq(GENERATION_PROJECTS_in_order,
                     LAMBDA g : "gen_storage_efficiency" \in DOMAIN generation_projects_info[g])
    /\ grouping_pc' = "GENS_IN_ZONE"
    /\ UNCHANGED << grouping_error, GENS_IN_ZONE_dict, GENS_IN_ZONE, GENS_BY_TECH_dict,
                    GENS_BY_TECHNOLOGY >>
    /\ UNCHANGED << ledger_vars, build_vars, storage_vars, tx_vars, discrete_vars,
                    no_commit_vars, export_vars, storage_cost_vars, curtailment_vars >>

\* A mutant of the cache: every project is listed under every zone.
GENS_IN_ZONE_dict_every_zone ==
    [ _z \in LOAD_ZONES |-> GENERATION_PROJECTS_in_order ]

\* build.py:305-307: the cache, as the first request computes it
GENS_IN_ZONE_dict_computed ==
    [ _z \in LOAD_ZONES |->
        SelectSeq(GENERATION_PROJECTS_in_order, LAMBDA g : gen_load_zone(g) = _z) ]

\* build.py:303-313: GENS_IN_ZONE_init(m, z), that the construction of GENS_IN_ZONE
\* calls once for each zone
GENS_IN_ZONE_init(z) ==
    LET dict == IF GENS_IN_ZONE_dict.exists THEN GENS_IN_ZONE_dict.entries
                ELSE GENS_IN_ZONE_dict_computed
        result == dict[z]
        popped == [ k \in (DOMAIN dict) \ { z } |-> dict[k] ]
    IN  /\ grouping_pc = "GENS_IN_ZONE"
        /\ z \in LOAD_ZONES \ DOMAIN GENS_IN_ZONE
        /\ GENS_IN_ZONE_dict' =
               IF DOMAIN popped = { } THEN [ exists |-> FALSE, entries |-> << >> ]
               ELSE [ exists |-> TRUE, entries |-> popped ]
        /\ GENS_IN_ZONE' = GENS_IN_ZONE @@ (z :> Range(result))
        /\ grouping_pc' = IF DOMAIN GENS_IN_ZONE' = LOAD_ZONES THEN "GENS_BY_TECHNOLOGY"
                          ELSE "GENS_IN_ZONE"
        /\ UNCHANGED << grouping_error, GENS_BY_TECH_dict, GENS_BY_TECHNOLOGY,
                        STORAGE_GENS_data >>
        /\ UNCHANGED << ledger_vars, build_vars, storage_vars, tx_vars, discrete_vars,
                        no_commit_vars, export_vars, storage_cost_vars, curtailment_vars >>

\* build.py:327-329: the cache, as the first request computes it
GENS_BY_TECH_dict_computed ==
    [ _t \in GENERATION_TECHNOLOGIES |->
        SelectSeq(GENERATION_PROJECTS_in_order, LAMBDA g : gen_tech(g) = _t) ]

\* build.py:325-337: GENS_BY_TECHNOLOGY_init(m, t)
GENS_BY_TECHNOLOGY_init(t) ==
    LET dict == IF GENS_BY_TECH_dict.exists THEN GENS_BY_TECH_dict.entries
                ELSE GENS_BY_TECH_dict_computed
        result == dict[t]
        popped == [ k \in (DOMAIN dict) \ { t } |-> dict[k] ]
    IN  /\ grouping_pc = "GENS_BY_TECHNOLOGY"
        /\ t \in GENERATION_TECHNOLOGIES \ DOMAIN GENS_BY_TECHNOLOGY
        /\ GENS_BY_TECH_dict' =
               IF DOMAIN popped = { } THEN [ exists |-> FALSE, entries |-> << >> ]
               ELSE [ exists |-> TRUE, entries |-> popped ]
        /\ GENS_BY_TECHNOLOGY' = GENS_BY_TECHNOLOGY @@ (t :> Range(result))
        /\ grouping_pc' = IF DOMAIN GENS_BY_TECHNOLOGY' = GENERATION_TECHNOLOGIES
                          THEN "gen_storage_efficiency"
                          ELSE "GENS_BY_TECHNOLOGY"
        /\ UNCHANGED << grouping_error, GENS_IN_ZONE_dict, GENS_IN_ZONE, STORAGE_GENS_data >>
        /\ UNCHANGED << ledger_vars, build_vars, storage_vars, tx_vars, discrete_vars,
                        no_commit_vars, export_vars, storage_cost_vars, curtailment_vars >>

\* storage.py:158-169: STORAGE_GENS holds the projects load_inputs has named, and
\* gen_storage_efficiency takes their values, each within PercentFraction. No
\* component looks at the projects that are left out.
construct_gen_storage_efficiency ==
    /\ grouping_pc = "gen_storage_efficiency"
    /\ IF \E g \in Range(STORAGE_GENS_data) :
              ~ ( RLe(RInt(0), gen_storage_efficiency(g))
                  /\ RLe(gen_storage_efficiency(g), RInt(1)) )
       THEN grouping_pc' = "failed" /\ grouping_error' = "gen_storage_efficiency"
       ELSE grouping_pc' = "constructed" /\ UNCHANGED grouping_error
    /\ UNCHANGED << GENS_IN_ZONE_dict, GENS_IN_ZONE, GENS_BY_TECH_dict, GENS_BY_TECHNOLOGY,
                    STORAGE_GENS_data >>
    /\ UNCHANGED << ledger_vars, build_vars, storage_vars, tx_vars, discrete_vars,
                    no_commit_vars, export_vars, storage_cost_vars, curtailment_vars >>

NextGrouping ==
    \/ storage_load_inputs
    \/ \E z \in LOAD_ZONES : GENS_IN_ZONE_init(z)
    \/ \E t \in { "Battery_Storage", "CCGT" } : GENS_BY_TECHNOLOGY_init(t)
    \/ construct_gen_storage_efficiency

\* C26: once GENS_IN_ZONE_init has been called for every load zone, in whatever
\* order, GENS_IN_ZONE[z] is the set of the projects whose gen_load_zone is z: each
\* project is in the set of exactly one zone, and a zone without projects has the
\* empty set.
C26_GensInZone ==
    (grouping_pc # "idle" /\ DOMAIN GENS_IN_ZONE = LOAD_ZONES) =>
        /\ \A z \in LOAD_ZONES :
              GENS_IN_ZONE[z] = { g \in GENERATION_PROJECTS : gen_load_zone(g) = z }
        /\ \A g \in GENERATION_PROJECTS :
              Cardinality({ z \in LOAD_ZONES : g \in GENS_IN_ZONE[z] }) = 1
        /\ \A z \in LOAD_ZONES :
              (\A g \in GENERATION_PROJECTS : gen_load_zone(g) # z) => GENS_IN_ZONE[z] = { }

\* Every project is in z1: z2, whose set was asked for first, has the empty set.
C26_Witness ==
    /\ grouping_pc = "GENS_BY_TECHNOLOGY"
    /\ DOMAIN GENS_IN_ZONE = LOAD_ZONES
    /\ GENS_IN_ZONE["z1"] = { "g1", "g2", "g3" }
    /\ GENS_IN_ZONE["z2"] = { }
    /\ ~ GENS_IN_ZONE_dict.exists

\* C21: a model with a project of a storage technology that has no
\* gen_storage_efficiency is never constructed.
C21_AsStated ==
    grouping_pc = "constructed" =>
        \A g \in GENERATION_PROJECTS :
            gen_tech(g) \in storage_techs =>
                "gen_storage_efficiency" \in DOMAIN generation_projects_info[g]

\* C24: a cache of grouped indices no longer exists on the model once every one of
\* its groups has been requested: GENS_IN_ZONE_dict once GENS_IN_ZONE is complete,
\* GENS_BY_TECH_dict once GENS_BY_TECHNOLOGY is complete, and
\* Storage_Charge_Summation_dict once StorageNetCharge is complete.
C24_AsStated ==
    /\ (grouping_pc # "idle" /\ DOMAIN GENS_IN_ZONE = LOAD_ZONES) =>
           ~ GENS_IN_ZONE_dict.exists
    /\ (grouping_pc # "idle" /\ DOMAIN GENS_BY_TECHNOLOGY = GENERATION_TECHNOLOGIES) =>
           ~ GENS_BY_TECH_dict.exists
    /\ (storage_pc # "idle"
          /\ DOMAIN StorageNetCharge = LOAD_ZONES \X (DOMAIN timepoints_csv)) =>
           ~ Storage_Charge_Summation_dict.exists

(***************************************************************************)
(* The capital cost of storage energy (storage.py:225-230, 277-290) next   *)
(* to a fixed ratio of energy to power (storage.py:184-189, 346-354).      *)
(***************************************************************************)
\* gen_build_costs.csv: the cost per MWh of a vintage, none or 100
StorageEnergyCostLevels == { 0, 100 }

\* A model of the storage project with the optional constraints of storage.py and
\* a cost of energy capacity for every vintage of gen_build_costs.csv.
InitStorageCost ==
    /\ \E tables \in { x \in StorageTimeTables : x.timeseries["A"].ts_duration_of_tp = 12 } :
          /\ periods_csv = tables.periods
          /\ timeseries_csv = tables.timeseries
          /\ timepoints_csv = tables.timepoints
    /\ generation_projects_info \in StorageOptionProjectTables
    /\ gen_build_predetermined \in StoragePredeterminedTables
    /\ gen_build_costs = { << "g1", p >> : p \in DOMAIN periods_csv }
                             \cup DOMAIN gen_build_predetermined
    /\ gen_storage_energy_overnight_cost \in [ gen_build_costs -> StorageEnergyCostLevels ]
    /\ StorageEnergyFixedCost = << >>
    /\ BuildStart
    /\ storage_pc = "StorageEnergyFixedCost"
    /\ storage_error = "none"
    /\ STORAGE_GEN_TPS = { }
    /\ Track_State_Of_Charge = << >>
    /\ State_Of_Charge_Upper_Limit = << >>
    /\ State_Of_Charge_Lower_Limit = << >>
    /\ ChargeStorage = << >>
    /\ DispatchGen = << >>
    /\ StateOfCharge = << >>
    /\ Storage_Charge_Summation_dict = [ exists |-> FALSE, entries |-> << >> ]
    /\ StorageNetCharge = << >>
    /\ Enforce_Fixed_Energy_Storage_Ratio = << >>
    /\ Battery_Cycle_Limit = << >>

\* storage.py:280-289: the terms of StorageEnergyFixedCost[p], one for each vintage of
\* a storage project that operates in p:
\* BuildStorageEnergy[energy] * overnight_cost * crf(interest_rate, max_age)
StorageEnergyFixedCost_rule(p) ==
    { [ energy |-> k,
        overnight_cost |-> gen_storage_energy_overnight_cost[k],
        max_age |-> gen_max_age(k[1]) ] :
        k \in { j \in STORAGE_GEN_BLD_YRS :
                  /\ << j[1], p >> \in DOMAIN BLD_YRS_FOR_GEN_PERIOD
                  /\ j[2] \in BLD_YRS_FOR_GEN_PERIOD[<< j[1], p >>] } }

\* storage.py:277-290: the expression is constructed for every period, whatever
\* the costs and the ratios of the projects are
construct_StorageEnergyFixedCost ==
    /\ build_pc = "solve"
    /\ storage_pc = "StorageEnergyFixedCost"
    /\ StorageEnergyFixedCost' = [ p \in PERIODS |-> StorageEnergyFixedCost_rule(p) ]
    /\ storage_pc' = "STORAGE_GEN_TPS"
    /\ UNCHANGED << storage_inputs, storage_error, storage_components, net_charge_vars,
                    storage_option_vars >>
    /\ UNCHANGED gen_storage_energy_overnight_cost
    /\ UNCHANGED << ledger_vars, build_vars, tx_vars, discrete_vars, no_commit_vars,
                    grouping_vars, export_vars, curtailment_vars >>

NextStorageCost ==
    \/ construct_build_year_sets
    \/ no_predetermined_bld_yr_vs_period_conflict
    \/ construct_operability_sets
    \/ construct_BuildGen
    \/ construct_capacity
    \/ construct_min_build
    \/ construct_storage_build
    \/ construct_StorageEnergyFixedCost
    \/ construct_STORAGE_GEN_TPS
    \/ construct_StorageNetCharge
    \/ construct_Enforce_Fixed_Energy_Storage_Ratio
    \/ construct_Track_State_Of_Charge
    \/ construct_State_Of_Charge_Limits
    \/ construct_Battery_Cycle_Limit

\* C22: no model is constructed in which a vintage of a storage project has both a
\* constraint that fixes its energy capacity to a ratio of its power capacity and a
\* term of StorageEnergyFixedCost with a nonzero gen_storage_energy_overnight_cost.
C22_AsStated ==
    (storage_pc = "solve" /\ storage_error = "none" /\ build_error = "none") =>
        ~ \E k \in DOMAIN Enforce_Fixed_Energy_Storage_Ratio :
              \E p \in DOMAIN StorageEnergyFixedCost :
                  \E term \in StorageEnergyFixedCost[p] :
                      term.energy = k /\ term.overnight_cost # 0

(***************************************************************************)
(* The curtailment policy (policies/curtailment_test.py).                  *)
(***************************************************************************)
\* A python value with its type: python compares values of different types, and
\* finds them different.
py_str(s) == [ type |-> "str", v |-> s ]
py_int(n) == [ type |-> "int", v |-> n ]
py_eq(a, b) == a.type = b.type /\ a.v = b.v

\* generation_projects_info.csv: a wind or solar project and a solar project.
CurtailmentProjectTables ==
    { [ g \in { "g1", "g2" } |->
          [ gen_energy_source |-> IF g = "g1" THEN s ELSE "Solar" ] ] :
        s \in { "Wind", "Solar" } }

\* curtailment_target.tab: no row, a row for solar energy, or rows for both sources
CurtailmentTargetTables ==
    { << >>,
      [ k \in { << 2020, "Solar" >> } |-> << 1, 2 >> ],
      [ k \in { << 2020, "Solar" >>, << 2020, "Wind" >> } |->
          IF k[2] = "Solar" THEN << 1, 2 >> ELSE << 0, 1 >> ] }

\* The levels, in MW, of the upper limit of a dispatch and of a dispatch.
UpperLimitLevels == { 0, 10 }
DispatchGenLevels == { 0, 5, 10 }

\* build.py:238-243 and curtailment_test.py:80-84
gen_energy_source(g) == generation_projects_info[g].gen_energy_source
PERIOD_ENERGY_MAX_CUR == DOMAIN maximum_curtailment_CUR

\* curtailment_test.py:74-76
GEN_PERIODS_cur == GENERATION_PROJECTS \X PERIODS

\* dispatch and timescales: the timepoints of a period in which a project operates,
\* the points of dispatch, and the hours a timepoint stands for
TPS_FOR_GEN_IN_PERIOD(g, p) == TPS_FOR_GEN(g) \cap TPS_IN_PERIOD(p)
GEN_TPS == { k \in GENERATION_PROJECTS \X DOMAIN timepoints_csv : k[2] \in TPS_FOR_GEN(k[1]) }
tp_weight(t) == tp_duration_hrs(t)

\* A model with the two projects, of which g2 operates from the first period or from
\* 2030, with an upper limit for every point of dispatch and a table of targets.
InitCurtailment ==
    /\ \E tables \in StorageTimeTables :
          /\ periods_csv = tables.periods
          /\ timeseries_csv = tables.timeseries
          /\ timepoints_csv = tables.timepoints
    /\ generation_projects_info \in CurtailmentProjectTables
    /\ \E first \in { 2020, 2030 } :
          BLD_YRS_FOR_GEN_PERIOD =
              [ k \in (DOMAIN generation_projects_info) \X (DOMAIN periods_csv) |->
                  IF k[1] = "g2" /\ k[2] < first THEN { } ELSE { 2020 } ]
    /\ GEN_PERIODS = { k \in DOMAIN BLD_YRS_FOR_GEN_PERIOD : BLD_YRS_FOR_GEN_PERIOD[k] # { } }
    /\ DispatchUpperLimit_mw \in [ GEN_TPS -> UpperLimitLevels ]
    /\ \A k \in GEN_TPS : k[1] = "g2" => DispatchUpperLimit_mw[k] = 10
    /\ maximum_curtailment_CUR \in CurtailmentTargetTables
    /\ curtailment_pc = "gen_energy_actual"
    /\ gen_energy_actual = << >>
    /\ gen_energy_ideal = << >>
    /\ gen_curtailment_ratio = << >>
    /\ gen_curtailment_ratio_cos = << >>

\* curtailment_test.py:98-100, 105-107 and 118-123: the generator expression of the
\* sums, over the projects whose gen_energy_source equals e and their timepoints
\* in TPS_FOR_GEN_IN_PERIOD[g, p].  A lookup is made only for a project that
\* passes the test, and raises KeyError if (g, p) is no index.
energy_terms(p, e) ==
    LET gens == { g \in GENERATION_PROJECTS : py_eq(py_str(gen_energy_source(g)), e) }
    IN  IF gens = { } THEN [ raises |-> "none", terms |-> { } ]
        ELSE IF p.type # "int" \/ p.v \notin PERIODS
        THEN [ raises |-> "KeyError", terms |-> { } ]
        ELSE [ raises |-> "none",
               terms |-> { k \in GEN_TPS : /\ k[1] \in gens
                                            /\ k[2] \in TPS_FOR_GEN_IN_PERIOD(k[1], p.v) } ]

\* curtailment_test.py:95-107: gen_energy_actual and gen_energy_ideal are indexed by
\* GEN_PERIODS_cur, and their rules take the project of the index for p and the
\* period of the index for e
construct_gen_energy ==
    /\ curtailment_pc = "gen_energy_actual"
    /\ LET rule == [ k \in GEN_PERIODS_cur |-> energy_terms(py_str(k[1]), py_int(k[2])) ]
       IN  IF \E k \in GEN_PERIODS_cur : rule[k].raises # "none"
           THEN /\ curtailment_pc' = "failed"
                /\ UNCHANGED << gen_energy_actual, gen_energy_ideal >>
           ELSE /\ curtailment_pc' = "gen_curtailment_ratio"
                /\ gen_energy_actual' = [ k \in GEN_PERIODS_cur |-> rule[k].terms ]
                /\ gen_energy_ideal' = [ k \in GEN_PERIODS_cur |-> rule[k].terms ]
    /\ UNCHANGED << maximum_curtailment_CUR, DispatchUpperLimit_mw, gen_curtailment_ratio,
                    gen_curtailment_ratio_cos >>
    /\ UNCHANGED << ledger_vars, build_vars, storage_vars, tx_vars, discrete_vars,
                    no_commit_vars, grouping_vars, export_vars, storage_cost_vars >>

\* curtailment_test.py:110-113: (ideal - actual) / ideal, a quotient of two named
\* expressions, which pyomo keeps as an expression
gen_curtailment_ratio_rule(p, e) ==
    [ minuend |-> << p, e >>, subtrahend |-> << p, e >>, divisor |-> << p, e >> ]

construct_gen_curtailment_ratio ==
    /\ curtailment_pc = "gen_curtailment_ratio"
    /\ gen_curtailment_ratio' =
           [ k \in GEN_PERIODS_cur |-> gen_curtailment_ratio_rule(k[1], k[2]) ]
    /\ curtailment_pc' = "gen_curtailment_ratio_cos"
    /\ UNCHANGED << maximum_curtailment_CUR, DispatchUpperLimit_mw, gen_energy_actual,
                    gen_energy_ideal, gen_curtailment_ratio_cos >>
    /\ UNCHANGED << ledger_vars, build_vars, storage_vars, tx_vars, discrete_vars,
                    no_commit_vars, grouping_vars, export_vars, storage_cost_vars >>

\* curtailment_test.py:115-125: for a (period, energy source) of the targets,
\* sum(upper limits) - sum(dispatch) <= sum(upper limits) * maximum_curtailment_CUR
construct_gen_curtailment_ratio_cos ==
    /\ curtailment_pc = "gen_curtailment_ratio_cos"
    /\ gen_curtailment_ratio_cos' =
           [ k \in PERIOD_ENERGY_MAX_CUR |->
               [ terms |-> energy_terms(py_int(k[1]), py_str(k[2])).terms,
                 share |-> maximum_curtailment_CUR[k] ] ]
    /\ curtailment_pc' = "solve"
    /\ UNCHANGED << maximum_curtailment_CUR, DispatchUpperLimit_mw, gen_energy_actual,
                    gen_energy_ideal, gen_curtailment_ratio >>
    /\ UNCHANGED << ledger_vars, build_vars, storage_vars, tx_vars, discrete_vars,
                    no_commit_vars, grouping_vars, export_vars, storage_cost_vars >>

\* The value, in MWh, of a sum of weighted terms under the values val of its factors.
energy_value(val, terms) ==
    SumSeq([ i \in 1..Cardinality(DOMAIN timepoints_csv) |->
               SumSeq([ j \in 1..Len(GroupingProjects) |->
                          IF << GroupingProjects[j], i >> \in terms
                          THEN val[<< GroupingProjects[j], i >>] * tp_weight(i) ELSE 0 ]) ])

gen_curtailment_ratio_cos_holds(dispatch) ==
    \A k \in DOMAIN gen_curtailment_ratio_cos :
        LET con == gen_curtailment_ratio_cos[k]
        IN  RLe(RInt(energy_value(DispatchUpperLimit_mw, con.terms)
                         - energy_value(dispatch, con.terms)),
                RMul(RInt(energy_value(DispatchUpperLimit_mw, con.terms)), con.share))

\* The solver returns a dispatch within the upper limits that satisfies the
\* constraints of the policy.
solve_curtailment ==
    /\ curtailment_pc = "solve"
    /\ \E dispatch \in [ GEN_TPS -> DispatchGenLevels ] :
          /\ \A k \in GEN_TPS : dispatch[k] <= DispatchUpperLimit_mw[k]
          /\ gen_curtailment_ratio_cos_holds(dispatch)
          /\ DispatchGen' = dispatch
    /\ curtailment_pc' = "solved"
    /\ UNCHANGED << storage_inputs, storage_pc, storage_error, STORAGE_GEN_TPS,
                    Track_State_Of_Charge, State_Of_Charge_Upper_Limit,
                    State_Of_Charge_Lower_Limit, ChargeStorage, StateOfCharge,
                    net_charge_vars, storage_option_vars >>
    /\ UNCHANGED << maximum_curtailment_CUR, DispatchUpperLimit_mw, gen_energy_actual,
                    gen_energy_ideal, gen_curtailment_ratio, gen_curtailment_ratio_cos >>
    /\ UNCHANGED << ledger_vars, build_vars, tx_vars, discrete_vars, no_commit_vars,
                    grouping_vars, export_vars, storage_cost_vars >>

\* value(gen_curtailment_ratio[k]) in the solved model: the quotient is evaluated,
\* and python raises ZeroDivisionError for a divisor of zero
gen_curtailment_ratio_value(k) ==
    LET ratio == gen_curtailment_ratio[k]
        ideal == energy_value(DispatchUpperLimit_mw, gen_energy_ideal[ratio.minuend])
        actual == energy_value(DispatchGen, gen_energy_actual[ratio.subtrahend])
        divisor == energy_value(DispatchUpperLimit_mw, gen_energy_ideal[ratio.divisor])
    IN  IF divisor = 0 THEN [ raises |-> "ZeroDivisionError" ]
        ELSE [ raises |-> "none", ratio |-> RDiv(RInt(ideal - actual), RInt(divisor)) ]

NextCurtailment ==
    \/ construct_gen_energy
    \/ construct_gen_curtailment_ratio
    \/ construct_gen_curtailment_ratio_cos
    \/ solve_curtailment

\* C25: in a solved model, the curtailment ratio of an index whose ideal generation
\* is zero has the value 0, and its evaluation raises nothing.
C25_AsStated ==
    curtailment_pc = "solved" =>
        \A k \in DOMAIN gen_curtailment_ratio :
            energy_value(DispatchUpperLimit_mw, gen_energy_ideal[k]) = 0 =>
                /\ gen_curtailment_ratio_value(k).raises = "none"
                /\ gen_curtailment_ratio_value(k).ratio = RInt(0)

Init == InitLedger /\ IdleBuild /\ IdleStorage /\ IdleTx /\ IdleProject

Next ==
    \/ load_zones_define_dynamic_lists
    \/ local_td_define_dynamic_lists
    \/ skip_module
    \/ load_zones_define_components
    \/ storage_define_components
    \/ tx_dispatch_define_components
    \/ load_zones_define_dynamic_components
    \/ create_instance
    \/ solve
    \/ solve_infeasible
    \/ post_solve

Spec == Init /\ [][Next]_vars

InitSpecBuild == IdleLedger /\ InitBuild /\ IdleStorage /\ IdleTx /\ IdleProject

SpecBuild == InitSpecBuild /\ [][NextBuild]_vars

InitSpecStorage == IdleLedger /\ InitStorage /\ IdleTx /\ IdleProject

SpecStorage == InitSpecStorage /\ [][NextStorage]_vars

\* A network over the timepoints of one or two periods; no project, no storage.
InitSpecTx ==
    /\ IdleLedger
    /\ \E tables \in StorageTimeTables :
          /\ periods_csv = tables.periods
          /\ timeseries_csv = tables.timeseries
          /\ timepoints_csv = tables.timepoints
    /\ generation_projects_info = << >>
    /\ gen_build_predetermined = << >>
    /\ gen_build_costs = { }
    /\ build_pc = "idle"
    /\ build_error = "none"
    /\ built = { }
    /\ PREDETERMINED_BLD_YRS = { }
    /\ GEN_BLD_YRS = { }
    /\ NEW_GEN_BLD_YRS = { }
    /\ PERIODS_FOR_GEN_BLD_YR = << >>
    /\ BLD_YRS_FOR_GEN_PERIOD = << >>
    /\ GEN_PERIODS = { }
    /\ BuildGen_bounds = << >>
    /\ BuildGen = << >>
    /\ GenCapacity = << >>
    /\ Max_Build_Potential = { }
    /\ NEW_GEN_WITH_MIN_BUILD_YEARS = { }
    /\ BuildMinGenCap = << >>
    /\ BuildStorageEnergy_bounds = << >>
    /\ BuildStorageEnergy = << >>
    /\ storage_pc = "idle"
    /\ storage_error = "none"
    /\ STORAGE_GEN_TPS = { }
    /\ Track_State_Of_Charge = << >>
    /\ State_Of_Charge_Upper_Limit = << >>
    /\ State_Of_Charge_Lower_Limit = << >>
    /\ ChargeStorage = << >>
    /\ DispatchGen = << >>
    /\ StateOfCharge = << >>
    /\ Storage_Charge_Summation_dict = [ exists |-> FALSE, entries |-> << >> ]
    /\ StorageNetCharge = << >>
    /\ Enforce_Fixed_Energy_Storage_Ratio = << >>
    /\ Battery_Cycle_Limit = << >>
    /\ InitTx
    /\ IdleProject

SpecTx == InitSpecTx /\ [][NextTx]_vars

InitSpecStorageOptions == IdleLedger /\ InitStorageOptions /\ IdleTx /\ IdleProject

SpecStorageOptions == InitSpecStorageOptions /\ [][NextStorage]_vars

InitSpecStorageHourly == IdleLedger /\ InitStorageHourly /\ IdleTx /\ IdleProject

SpecStorageHourly == InitSpecStorageHourly /\ [][NextStorage]_vars

InitSpecDiscrete == IdleLedger /\ IdleBuild /\ IdleStorage /\ IdleTx /\ InitDiscrete

SpecDiscrete == InitSpecDiscrete /\ [][NextDiscrete]_vars

InitSpecScenario == InitScenario /\ IdleTx

SpecScenario == InitSpecScenario /\ [][NextScenario]_vars

InitSpecNetCharge == InitNetCharge /\ IdleTx /\ IdleProject

SpecNetCharge == InitSpecNetCharge /\ [][NextNetCharge]_vars

InitSpecGrouping ==
    /\ IdleLedger /\ IdleStorage /\ IdleTx
    /\ periods_csv = << >>
    /\ gen_build_predetermined = << >>
    /\ gen_build_costs = { }
    /\ build_pc = "idle"
    /\ build_error = "none"
    /\ built = { }
    /\ PREDETERMINED_BLD_YRS = { }
    /\ GEN_BLD_YRS = { }
    /\ NEW_GEN_BLD_YRS = { }
    /\ PERIODS_FOR_GEN_BLD_YR = << >>
    /\ BLD_YRS_FOR_GEN_PERIOD = << >>
    /\ GEN_PERIODS = { }
    /\ BuildGen_bounds = << >>
    /\ BuildGen = << >>
    /\ GenCapacity = << >>
    /\ Max_Build_Potential = { }
    /\ NEW_GEN_WITH_MIN_BUILD_YEARS = { }
    /\ BuildMinGenCap = << >>
    /\ BuildStorageEnergy_bounds = << >>
    /\ BuildStorageEnergy = << >>
    /\ proj_gen_tech = << >>
    /\ g_unit_size = << >>
    /\ PROJECT_BUILDYEARS = << >>
    /\ discrete_pc = "idle"
    /\ NEW_PROJ_BUILDYEARS_DISCRETE = { }
    /\ Build_Units_Consistency = << >>
    /\ BuildUnits = << >>
    /\ BuildProj = << >>
    /\ IdleNoCommit
    /\ IdleExport
    /\ IdleStorageCost
    /\ IdleCurtailment
    /\ InitGrouping

SpecGrouping == InitSpecGrouping /\ [][NextGrouping]_vars

InitSpecStorageCost ==
    /\ IdleLedger /\ IdleTx
    /\ proj_gen_tech = << >>
    /\ g_unit_size = << >>
    /\ PROJECT_BUILDYEARS = << >>
    /\ discrete_pc = "idle"
    /\ NEW_PROJ_BUILDYEARS_DISCRETE = { }
    /\ Build_Units_Consistency = << >>
    /\ BuildUnits = << >>
    /\ BuildProj = << >>
    /\ IdleNoCommit
    /\ IdleGrouping
    /\ IdleExport
    /\ IdleCurtailment
    /\ InitStorageCost

SpecStorageCost == InitSpecStorageCost /\ [][NextStorageCost]_vars

InitSpecCurtailment ==
    /\ IdleLedger /\ IdleTx
    /\ gen_build_predetermined = << >>
    /\ gen_build_costs = { }
    /\ build_pc = "idle"
    /\ build_error = "none"
    /\ built = { }
    /\ PREDETERMINED_BLD_YRS = { }
    /\ GEN_BLD_YRS = { }
    /\ NEW_GEN_BLD_YRS = { }
    /\ PERIODS_FOR_GEN_BLD_YR = << >>
    /\ BuildGen_bounds = << >>
    /\ BuildGen = << >>
    /\ GenCapacity = << >>
    /\ Max_Build_Potential = { }
    /\ NEW_GEN_WITH_MIN_BUILD_YEARS = { }
    /\ BuildMinGenCap = << >>
    /\ BuildStorageEnergy_bounds = << >>
    /\ BuildStorageEnergy = << >>
    /\ storage_pc = "idle"
    /\ storage_error = "none"
    /\ STORAGE_GEN_TPS = { }
    /\ Track_State_Of_Charge = << >>
    /\ State_Of_Charge_Upper_Limit = << >>
    /\ State_Of_Charge_Lower_Limit = << >>
    /\ ChargeStorage = << >>
    /\ DispatchGen = << >>
    /\ StateOfCharge = << >>
    /\ Storage_Charge_Summation_dict = [ exists |-> FALSE, entries |-> << >> ]
    /\ StorageNetCharge = << >>
    /\ Enforce_Fixed_Energy_Storage_Ratio = << >>
    /\ Battery_Cycle_Limit = << >>
    /\ proj_gen_tech = << >>
    /\ g_unit_size = << >>
    /\ PROJECT_BUILDYEARS = << >>
    /\ discrete_pc = "idle"
    /\ NEW_PROJ_BUILDYEARS_DISCRETE = { }
    /\ Build_Units_Consistency = << >>
    /\ BuildUnits = << >>
    /\ BuildProj = << >>
    /\ IdleNoCommit
    /\ IdleGrouping
    /\ IdleExport
    /\ IdleStorageCost
    /\ InitCurtailment

SpecCurtailment == InitSpecCurtailment /\ [][NextCurtailment]_vars
====
